---- MODULE Spec2Model ----
(***************************************************************************)
(* Query understanding and dispatch engine of ai-model-rag-system:         *)
(*   src/src/query_engine/search_dispatcher.py  (SearchDispatcher)         *)
(*   src/src/query_engine/query_parser.py       (QueryParser)              *)
(*                                                                         *)
(* Python values of mixed type are tagged records [t |-> <type>, v |-> _]. *)
(* A dict is a function whose DOMAIN is its key set.  External             *)
(* collaborators (access control, analytics, vector database, the LLM      *)
(* chain, the spaCy pipeline) are nondeterministic choices over the        *)
(* outcomes their interface allows: a returned value or a raised           *)
(* exception.                                                              *)
(***************************************************************************)
EXTENDS Integers, Sequences, FiniteSets, TLC

VARIABLES
    pc,                     \* position of the running call
    intent,                 \* dispatch: the intent binding (rebound by the conversion)
    caller_intent,          \* dispatch: the intent argument as the caller passed it
    parameters,             \* dispatch: the parameters binding (rebound by access control)
    caller_parameters,      \* dispatch: the parameters argument as the caller passed it
    user_id,                \* dispatch: the user_id argument
    access_control_manager, \* SearchDispatcher.access_control_manager
    analytics,              \* SearchDispatcher.analytics
    calls,                  \* log of collaborator and handler calls, in order
    results,                \* dispatch: what the awaited handler handed back
    query_text,             \* parser: the query, a sequence of words
    use_langchain,          \* QueryParser.use_langchain
    chain_reply,            \* parser: what the LLM chain does when invoked
    model_mentions,         \* classify_intent: what _extract_model_mentions returned
    doc,                    \* _nlp_based_intent_classification: the spaCy tagging
    re_bound,               \* parser: the running function's local name re is bound
    param_reply,            \* extract_parameters: what the parameter chain does when invoked
    stack,                  \* the calls waiting for the running one to return
    chroma_manager,         \* handlers: what the vector database does for each request
    tasks,                  \* handle_comparison: the fetch tasks handed to asyncio.gather
    outcome                 \* what the call handed back: a returned value or an exception

\* the variables only dispatch uses, and those only the parser uses
dispatch_only == <<caller_intent, parameters, caller_parameters, user_id,
                   access_control_manager, analytics, results>>
extract_only == <<param_reply, stack>>
parser_only == <<query_text, use_langchain, chain_reply, model_mentions, doc,
                 re_bound, extract_only>>

handler_only == <<chroma_manager, tasks>>

vars == <<pc, intent, calls, outcome, dispatch_only, parser_only, handler_only>>

(***************************************************************************)
(* Python values                                                           *)
(***************************************************************************)
None == [t |-> "none"]
PyStr(s) == [t |-> "str", v |-> s]
PyInt(n) == [t |-> "int", v |-> n]
PyList(q) == [t |-> "list", v |-> q]
PyDict(f) == [t |-> "dict", v |-> f]

EmptyDict == [k \in {} |-> None]

\* bool(x) for the value kinds the model uses
Truthy(x) ==
    CASE x.t = "none" -> FALSE
      [] x.t = "str"  -> x.v # ""
      [] x.t = "int"  -> x.v # 0
      [] x.t = "list" -> Len(x.v) > 0
      [] x.t = "dict" -> DOMAIN x.v # {}
      [] OTHER        -> TRUE

\* d.get(key, default) on a dict given as a function
Get(d, key, default) == IF key \in DOMAIN d THEN d[key] ELSE default

(***************************************************************************)
(* QueryIntent (search_dispatcher.py) and the handler table                *)
(***************************************************************************)
QueryIntentMembers ==
    {"RETRIEVAL", "COMPARISON", "NOTEBOOK", "IMAGE_SEARCH", "METADATA", "UNKNOWN"}

\* member name -> member value
QueryIntent ==
    [RETRIEVAL    |-> "retrieval",
     COMPARISON   |-> "comparison",
     NOTEBOOK     |-> "notebook",
     IMAGE_SEARCH |-> "image_search",
     METADATA     |-> "metadata",
     UNKNOWN      |-> "unknown"]

\* a member of the dispatcher's QueryIntent, of the parser's QueryIntent, a str
DispatcherIntent(m) == [t |-> "QueryIntent", v |-> m]
ParserIntent(m) == [t |-> "query_parser.QueryIntent", v |-> m]

\* self.handlers
handlers ==
    [RETRIEVAL    |-> "handle_text_search",
     COMPARISON   |-> "handle_comparison",
     NOTEBOOK     |-> "handle_notebook_request",
     IMAGE_SEARCH |-> "handle_image_search",
     METADATA     |-> "handle_metadata_search",
     UNKNOWN      |-> "handle_fallback_search"]

\* QueryIntent(value): lookup by value; no member has it -> ValueError
QueryIntentByValue(s) ==
    IF \E m \in QueryIntentMembers : QueryIntent[m] = s
    THEN DispatcherIntent(CHOOSE m \in QueryIntentMembers : QueryIntent[m] = s)
    ELSE [t |-> "ValueError"]

\* a conversion that sends an unrecognized string to UNKNOWN instead
ResolveIntent_ToUnknown(i) ==
    IF i.t = "str"
    THEN IF QueryIntentByValue(i.v).t = "ValueError"
         THEN DispatcherIntent("UNKNOWN")
         ELSE QueryIntentByValue(i.v)
    ELSE i

\* dispatch, "Convert string intent to enum if needed"
ResolveIntent(i) ==
    IF i.t = "str"
    THEN IF QueryIntentByValue(i.v).t = "ValueError"
         THEN DispatcherIntent("RETRIEVAL")
         ELSE QueryIntentByValue(i.v)
    ELSE i

\* self.handlers.get(intent, self.handle_fallback_search): the keys are the
\* members of the dispatcher's own QueryIntent; any other object equals none
GetHandler(i) ==
    IF i.t = "QueryIntent" THEN handlers[i.v] ELSE "handle_fallback_search"

\* intent.value if isinstance(intent, QueryIntent) else intent
MetadataIntent(i) ==
    IF i.t = "QueryIntent" THEN PyStr(QueryIntent[i.v]) ELSE i

(***************************************************************************)
(* Handlers, as dispatch sees them: a returned result dict or an exception *)
(***************************************************************************)
MaxResults == 2

Returned(value) == [t |-> "return", value |-> value]
Raised(error) == [t |-> "raise", error |-> error]
Pending == [t |-> "pending"]

\* the records a vector-database call hands back: 0..MaxResults of them
BackendResults == {[i \in 1..n |-> i] : n \in 0..MaxResults}

\* handle_text_search: embeds, searches, wraps the records; re-raises
handle_text_search(p) ==
    {Returned([success |-> TRUE, type |-> "text_search",
               items |-> r, total_found |-> Len(r)]) : r \in BackendResults}
    \cup {Raised("text search backend failure")}

\* handle_image_search
handle_image_search(p) ==
    {Returned([success |-> TRUE, type |-> "image_search",
               items |-> r, total_found |-> Len(r)]) : r \in BackendResults}
    \cup {Raised("image search backend failure")}

\* handle_metadata_search
handle_metadata_search(p) ==
    {Returned([success |-> TRUE, type |-> "metadata_search",
               items |-> r, total_found |-> Len(r)]) : r \in BackendResults}
    \cup {Raised("metadata search backend failure")}

\* handle_comparison: the model_ids check, then the fetches and the summaries
handle_comparison(p) ==
    LET model_ids == Get(p, "model_ids", PyList(<<>>))
    IN  IF ~Truthy(model_ids) \/ Len(model_ids.v) < 2
        THEN {Raised("Comparison requires at least two model IDs")}
        ELSE {Returned([success |-> TRUE, type |-> "comparison",
                        models |-> model_ids]),
              Raised("model fetch failure")}

\* handle_notebook_request
handle_notebook_request(p) ==
    LET model_ids == Get(p, "model_ids", PyList(<<>>))
    IN  IF ~Truthy(model_ids)
        THEN {Raised("Notebook generation requires at least one model ID")}
        ELSE {Returned([success |-> TRUE, type |-> "notebook_request",
                        request |-> [model_ids |-> model_ids,
                                     user_id |-> Get(p, "user_id", None)]])}

FallbackEmpty ==
    Returned([success |-> TRUE, type |-> "fallback_search", items |-> <<>>,
              total_found |-> 0,
              message |-> "No results found using various search strategies"])

FallbackError ==
    Returned([success |-> FALSE, error |-> "An error occurred during the search",
              type |-> "fallback_search", items |-> <<>>, total_found |-> 0])

\* handle_fallback_search: text search, then metadata search, then empty
handle_fallback_search(p) ==
    UNION {
        IF text.t = "raise" THEN {FallbackError}
        ELSE IF text.value.success /\ text.value.total_found > 0 THEN {text}
        ELSE { IF meta.t = "return" /\ meta.value.success
                  /\ meta.value.total_found > 0
               THEN meta ELSE FallbackEmpty
               : meta \in handle_metadata_search(p) }
        : text \in handle_text_search(p) }

\* await handler(query, parameters)
CallHandler(h, p) ==
    CASE h = "handle_text_search"      -> handle_text_search(p)
      [] h = "handle_comparison"       -> handle_comparison(p)
      [] h = "handle_notebook_request" -> handle_notebook_request(p)
      [] h = "handle_image_search"     -> handle_image_search(p)
      [] h = "handle_metadata_search"  -> handle_metadata_search(p)
      [] h = "handle_fallback_search"  -> handle_fallback_search(p)

\* _sanitize_parameters
sensitive_fields == {"user_id", "access_token", "auth_context", "raw_query", "query_id"}

_sanitize_parameters(p) ==
    IF DOMAIN p = {} THEN EmptyDict
    ELSE [k \in DOMAIN p \ sensitive_fields |->
            IF k = "image_data" THEN PyStr("[binary data removed]") ELSE p[k]]

(***************************************************************************)
(* SearchDispatcher.dispatch                                               *)
(***************************************************************************)
\* intent arguments: members of the dispatcher's enum, members of the
\* parser's enum, canonical and other strings
IntentStrings ==
    {QueryIntent[m] : m \in QueryIntentMembers} \cup {"RETRIEVAL", "compare", ""}

IntentArguments ==
    {DispatcherIntent(m) : m \in QueryIntentMembers}
    \cup {ParserIntent(m) : m \in QueryIntentMembers}
    \cup {PyStr(s) : s \in IntentStrings}

\* parameter bags a caller passes and an access-control collaborator returns
ParamBags ==
    {EmptyDict,
     [model_ids |-> PyList(<<"gpt", "bert">>)],
     [model_ids |-> PyList(<<"gpt">>), query_id |-> PyStr("q1")],
     [model_ids |-> PyList(<<"gpt", "bert">>),
      filters |-> PyDict([owner |-> PyStr("team-b")]),
      user_id |-> PyStr("u1"), image_data |-> PyStr("<bytes>")],
     [filters |-> PyDict([user_id |-> PyStr("u1")]),
      auth |-> PyDict([access_token |-> PyStr("t0")]),
      reference_image |-> PyStr("<bytes>")]}

UserIds == {None, PyStr(""), PyStr("u1")}
Collaborator(name) == [t |-> name]

Call(fn, arg, ret) == [fn |-> fn, arg |-> arg, ret |-> ret]

DispatchInit ==
    /\ pc = "dispatch"
    /\ caller_intent \in IntentArguments
    /\ intent = caller_intent
    /\ caller_parameters \in ParamBags
    /\ parameters = caller_parameters
    /\ user_id \in UserIds
    /\ access_control_manager \in {None, Collaborator("AccessControlManager")}
    /\ analytics \in {None, Collaborator("Analytics")}
    /\ calls = <<>>
    /\ results = Pending
    /\ outcome = Pending
    /\ query_text = <<>>
    /\ use_langchain = FALSE
    /\ chain_reply = None
    /\ model_mentions = {}
    /\ doc = <<>>
    /\ param_reply = None
    /\ stack = <<>>
    /\ re_bound = FALSE
    /\ chroma_manager = None
    /\ tasks = <<>>

\* lines 71-77: isinstance(intent, str) -> QueryIntent(intent), ValueError -> RETRIEVAL
dispatch_convert_intent ==
    /\ pc = "dispatch"
    /\ intent' = ResolveIntent(intent)
    /\ pc' = "access_control"
    /\ UNCHANGED <<caller_intent, parameters, caller_parameters, user_id,
                   access_control_manager, analytics, calls, results, outcome,
                   parser_only, handler_only>>

\* the guard of line 80
AccessControlApplies == Truthy(access_control_manager) /\ Truthy(user_id)

\* line 81: the collaborator returns the parameters to use
dispatch_apply_access_filters ==
    /\ pc = "access_control"
    /\ AccessControlApplies
    /\ \E filtered \in ParamBags :
          /\ parameters' = filtered
          /\ calls' = Append(calls, Call("apply_access_filters", parameters,
                                         PyDict(filtered)))
    /\ pc' = "handler"
    /\ UNCHANGED <<intent, caller_intent, caller_parameters, user_id, access_control_manager,
                   analytics, results, outcome,
                   parser_only, handler_only>>

\* line 81: the collaborator raises; the call is outside the try block
dispatch_access_filters_raise ==
    /\ pc = "access_control"
    /\ AccessControlApplies
    /\ calls' = Append(calls, Call("apply_access_filters", parameters,
                                   Raised("access control failure")))
    /\ outcome' = Raised("access control failure")
    /\ pc' = "raised"
    /\ UNCHANGED <<intent, caller_intent, parameters, caller_parameters, user_id,
                   access_control_manager, analytics, results,
                   parser_only, handler_only>>

\* line 80 false: no collaborator or no user_id
dispatch_skip_access_control ==
    /\ pc = "access_control"
    /\ ~AccessControlApplies
    /\ pc' = "handler"
    /\ UNCHANGED <<intent, caller_intent, parameters, caller_parameters, user_id,
                   access_control_manager, analytics, calls, results, outcome,
                   parser_only, handler_only>>

\* a dispatch that hands the handler the caller's own parameters
HandlerArgument_Unfiltered == caller_parameters

\* the parameters dispatch hands to the handler (line 88)
HandlerArgument == parameters

\* lines 84-88: pick the handler, await it
dispatch_call_handler ==
    /\ pc = "handler"
    /\ \E r \in CallHandler(GetHandler(intent), HandlerArgument) :
          /\ results' = r
          /\ pc' = IF r.t = "return" THEN "try" ELSE "except"
    /\ calls' = Append(calls, Call(GetHandler(intent), HandlerArgument, None))
    /\ UNCHANGED <<intent, caller_intent, parameters, caller_parameters, user_id,
                   access_control_manager, analytics, outcome,
                   parser_only, handler_only>>

\* lines 101-107: results['metadata'] = {...}
SuccessEnvelope ==
    [metadata |->
        [intent |-> MetadataIntent(intent),
         execution_time_ms |-> "elapsed",
         result_count |-> Len(Get(results.value, "items", <<>>)),
         parameters |-> _sanitize_parameters(parameters)]]
    @@ results.value

\* lines 122-129
ErrorEnvelope ==
    [success |-> FALSE,
     error |-> results.error,
     metadata |-> [intent |-> MetadataIntent(intent),
                   execution_time_ms |-> "elapsed"]]

\* lines 90-109 without analytics, or with log_performance_metrics returning
dispatch_return_results ==
    /\ pc = "try"
    /\ calls' = IF Truthy(analytics)
                THEN Append(calls, Call("log_performance_metrics",
                                        Get(parameters, "query_id", PyStr("unknown")), None))
                ELSE calls
    /\ outcome' = Returned(SuccessEnvelope)
    /\ pc' = "returned"
    /\ UNCHANGED <<intent, caller_intent, parameters, caller_parameters, user_id,
                   access_control_manager, analytics, results,
                   parser_only, handler_only>>

\* lines 94-99: log_performance_metrics raises inside the try block
dispatch_log_metrics_raise ==
    /\ pc = "try"
    /\ Truthy(analytics)
    /\ calls' = Append(calls, Call("log_performance_metrics",
                                   Get(parameters, "query_id", PyStr("unknown")), None))
    /\ results' = Raised("analytics failure")
    /\ pc' = "except"
    /\ UNCHANGED <<intent, caller_intent, parameters, caller_parameters, user_id,
                   access_control_manager, analytics, outcome,
                   parser_only, handler_only>>

\* lines 111-129 without analytics, or with update_query_status returning
dispatch_return_error ==
    /\ pc = "except"
    /\ calls' = IF Truthy(analytics)
                THEN Append(calls, Call("update_query_status",
                                        Get(parameters, "query_id", PyStr("unknown")), None))
                ELSE calls
    /\ outcome' = Returned(ErrorEnvelope)
    /\ pc' = "returned"
    /\ UNCHANGED <<intent, caller_intent, parameters, caller_parameters, user_id,
                   access_control_manager, analytics, results,
                   parser_only, handler_only>>

\* lines 115-119: update_query_status raises inside the except block
dispatch_update_status_raise ==
    /\ pc = "except"
    /\ Truthy(analytics)
    /\ calls' = Append(calls, Call("update_query_status",
                                   Get(parameters, "query_id", PyStr("unknown")), None))
    /\ outcome' = Raised("analytics failure")
    /\ pc' = "raised"
    /\ UNCHANGED <<intent, caller_intent, parameters, caller_parameters, user_id,
                   access_control_manager, analytics, results,
                   parser_only, handler_only>>

DispatchNext ==
    \/ dispatch_convert_intent
    \/ dispatch_apply_access_filters
    \/ dispatch_access_filters_raise
    \/ dispatch_skip_access_control
    \/ dispatch_call_handler
    \/ dispatch_return_results
    \/ dispatch_log_metrics_raise
    \/ dispatch_return_error
    \/ dispatch_update_status_raise

Spec == DispatchInit /\ [][DispatchNext]_vars

(***************************************************************************)
(* Properties of dispatch                                                  *)
(***************************************************************************)
HandlerNames == {handlers[m] : m \in QueryIntentMembers}
HandlerCalls == SelectSeq(calls, LAMBDA c : c.fn \in HandlerNames)
Envelope == outcome.value

\* C1: whatever fails inside dispatch (the handler, the access-control
\* collaborator, the analytics collaborator), no exception reaches the
\* caller, and a call in which something failed returns an envelope with
\* success = false, an error text and a metadata block.
C1_NoExceptionReachesCaller ==
    /\ pc # "raised"
    /\ outcome.t # "raise"
    /\ (pc = "returned" /\ results.t = "raise") =>
          /\ Envelope.success = FALSE
          /\ {"error", "metadata"} \subseteq DOMAIN Envelope

\* the transition table as the claim states it
C2_Table ==
    [RETRIEVAL    |-> "handle_text_search",
     COMPARISON   |-> "handle_comparison",
     NOTEBOOK     |-> "handle_notebook_request",
     IMAGE_SEARCH |-> "handle_image_search",
     METADATA     |-> "handle_metadata_search",
     UNKNOWN      |-> "handle_fallback_search"]

C2_CanonicalNames ==
    {"retrieval", "comparison", "notebook", "image_search", "metadata", "unknown"}

\* C2: dispatch never invokes more than one handler, and once it is past
\* the handler call (so in every call that returns an envelope) it has
\* invoked exactly one: the handler the table binds to the intent (given as
\* a member of QueryIntent or by its canonical name); for a string that is
\* no canonical name the handler is TextSearch and the metadata reports
\* intent "retrieval".
C2_ExactlyOneTableHandler ==
    /\ Len(HandlerCalls) <= 1
    /\ (results # Pending \/ pc = "returned") => Len(HandlerCalls) = 1
    /\ Len(HandlerCalls) = 1 =>
          /\ caller_intent.t = "QueryIntent" =>
                HandlerCalls[1].fn = C2_Table[caller_intent.v]
          /\ \A m \in QueryIntentMembers :
                caller_intent = PyStr(QueryIntent[m]) =>
                    HandlerCalls[1].fn = C2_Table[m]
          /\ (caller_intent.t = "str" /\ caller_intent.v \notin C2_CanonicalNames) =>
                /\ HandlerCalls[1].fn = "handle_text_search"
                /\ pc = "returned" => Envelope.metadata.intent = PyStr("retrieval")

\* C2 witness: a call with the string "compare", which is no canonical
\* name, has returned after running TextSearch.
C2_Witness ==
    /\ pc = "returned"
    /\ caller_intent = PyStr("compare")
    /\ Len(HandlerCalls) = 1
    /\ HandlerCalls[1].fn = "handle_text_search"
    /\ Envelope.metadata.intent = PyStr("retrieval")

\* C3: when an access-control collaborator is configured and user_id is
\* present, every handler call is preceded by a call of the collaborator,
\* and the handler's argument is what that call returned.
C3_HandlerSeesFilteredParameters ==
    \A i \in 1..Len(calls) :
        (calls[i].fn \in HandlerNames /\ AccessControlApplies) =>
            \E j \in 1..(i - 1) :
                /\ calls[j].fn = "apply_access_filters"
                /\ calls[j].arg = caller_parameters
                /\ calls[j].ret = PyDict(calls[i].arg)

\* C3 witness: the collaborator returned parameters other than the caller's
\* and a handler has run.
C3_Witness ==
    /\ AccessControlApplies
    /\ Len(HandlerCalls) = 1
    /\ HandlerCalls[1].arg # caller_parameters
    /\ pc = "returned"

\* the fields the metadata must not echo, and a binary payload
C27_Fields == {"user_id", "access_token", "raw_query"}
C27_Binary == PyStr("<bytes>")

\* a value that holds one of the fields, or a binary payload, at any depth
RECURSIVE Echoes(_)
Echoes(value) ==
    \/ value = C27_Binary
    \/ /\ value.t = "dict"
       /\ \E key \in DOMAIN value.v :
             key \in C27_Fields \/ Echoes(value.v[key])

\* C26: dispatch with intent Notebook and parameters whose model_ids is
\* empty or absent returns the envelope {success: false, error: "Notebook
\* generation requires at least one model ID", metadata} and no notebook
\* request.
C26_NotebookNeedsModelId ==
    (/\ pc \in {"returned", "raised"}
     /\ ResolveIntent(caller_intent) = ResolveIntent(PyStr("notebook"))
     /\ ~Truthy(Get(caller_parameters, "model_ids", PyList(<<>>)))
     /\ ~Truthy(Get(parameters, "model_ids", PyList(<<>>))))
    => /\ pc = "returned"
       /\ outcome.t = "return"
       /\ Envelope.success = FALSE
       /\ Envelope.error = "Notebook generation requires at least one model ID"
       /\ "metadata" \in DOMAIN Envelope
       /\ "request" \notin DOMAIN Envelope

\* C27: the metadata block of an envelope dispatch returns echoes no
\* user_id, no access token, no raw query text and no binary payload,
\* whatever the shape of the parameters.
C27_MetadataEchoesNothingSensitive ==
    (/\ pc = "returned"
     /\ "metadata" \in DOMAIN Envelope
     /\ "parameters" \in DOMAIN Envelope.metadata)
    => ~Echoes(PyDict(Envelope.metadata.parameters))

\* C29: when the member of QueryIntent that classify_intent returned is
\* passed as it is to dispatch, the handler invoked is the one the table
\* binds to that intent and the metadata reports its canonical name.
C29_ParserIntentDispatched ==
    \A m \in QueryIntentMembers :
        (caller_intent = ParserIntent(m) /\ Len(HandlerCalls) = 1)
        => /\ HandlerCalls[1].fn = C2_Table[m]
           /\ (pc = "returned" /\ "metadata" \in DOMAIN Envelope)
                 => Envelope.metadata.intent = PyStr(QueryIntent[m])

(***************************************************************************)
(* QueryParser: text, patterns, model mentions                             *)
(*                                                                         *)
(* A text is a sequence of words; the string it stands for is the words    *)
(* joined by single blanks.  A regular expression of the source is a set   *)
(* of templates, one per alternative: a template is a sequence of word     *)
(* sets and matches where consecutive words of the text lie in them        *)
(* (re.search: anywhere in the text).                                      *)
(***************************************************************************)
\* str.lower() on the words that are not lower case already
LowerOf == [Compare |-> "compare", GPT |-> "gpt", Notebook |-> "notebook"]

Lower(w) == IF w \in DOMAIN LowerOf THEN LowerOf[w] ELSE w
LowerText(text) == [i \in DOMAIN text |-> Lower(text[i])]

\* the template matches the text at word i
MatchesAt(template, text, i) ==
    /\ i + Len(template) - 1 <= Len(text)
    /\ \A k \in 1..Len(template) : text[i + k - 1] \in template[k]

\* re.search(pattern, text) for one alternative
Matches(template, text) == \E i \in 1..Len(text) : MatchesAt(template, text, i)

\* any(re.search(pattern, text) for pattern in patterns)
MatchesAny(templates, text) == \E tpl \in templates : Matches(tpl, text)

RetrievalVerbs == {"find", "get", "retrieve", "show", "display"}

\* self.intent_patterns, keyed by the member name
intent_patterns ==
    [RETRIEVAL |->
        {<<{w}>> : w \in RetrievalVerbs}
        \cup {<<{"tell"}, {"me"}, {"about"}>>, <<{"information"}, {"on"}>>,
              <<{"details"}, {"of"}>>}
        \cup {<<{"what"}, {"is", "are"}>>, <<{"how"}, {"is", "are"}>>,
              <<{"where"}, {"is", "are"}>>, <<{"when"}, {"was", "were"}>>},
     COMPARISON |->
        {<<{"compare"}>>, <<{"versus"}>>, <<{"vs", "vs."}>>,
         <<{"difference"}, {"between"}>>, <<{"similarities"}, {"between"}>>,
         <<{"better"}, {"than"}>>}
        \cup {<<{"which"}, {"is", "are"}, {"better", "worse", "faster"}>>,
              <<{"which"}, {"is", "are"}, {"more"}, {"accurate"}>>}
        \cup {<<{"compare", "comparing"}, {"the"},
                {"performance", "accuracy", "results"}, {"of"}>>},
     NOTEBOOK |->
        {<<{"create", "generate", "make", "build"},
           {"notebook", "colab", "code", "script"}>>,
         <<{"create", "generate", "make", "build"}, {"a", "an"},
           {"notebook", "colab", "code", "script"}>>}
        \cup {<<{"jupyter"}>>, <<{"analysis"}, {"script"}>>, <<{"analysis"}, {"code"}>>}
        \cup {<<{"notebook"}, {"for", "to"}, {"analyze", "explore", "compare"}>>},
     IMAGE_SEARCH |->
        {<<RetrievalVerbs, {"image", "picture", "photo"}>>}
        \cup {<<{"generated", "created"}, {"by", "with", "using"}>>}
        \cup {<<{"show", "find", "get"}, {"examples", "samples"}, {"of", "from"}>>,
              <<{"show", "find", "get"}, {"me"}, {"examples", "samples"},
                {"of", "from"}>>},
     METADATA |->
        {<<{w}>> : w \in {"metadata", "schema", "fields", "properties", "attributes"}}
        \cup {<<{"what"}, {"fields", "properties", "attributes"}, {"does", "do"}>>}
        \cup {<<{"structure", "organization"}, {"of"}>>}]

\* self.model_id_pattern: (model[_-]?id|model)[:\s]+([a-zA-Z0-9_-]+)
ModelIdWords == {"model", "model_id", "model-id", "modelid"}

\* words that do not start with a character of [a-zA-Z0-9_-]
Punctuation == {">", ","}

\* re.finditer(pattern, text) for one alternative: the words where the
\* matches start, found left to right without overlap
RECURSIVE FindFrom(_, _, _)
FindFrom(template, text, i) ==
    IF i > Len(text) THEN {}
    ELSE IF MatchesAt(template, text, i)
    THEN {i} \cup FindFrom(template, text, i + Len(template))
    ELSE FindFrom(template, text, i + 1)

FindIter(template, text) == FindFrom(template, text, 1)

ExplicitMentions(text) ==
    LET words == {text[i] : i \in 1..Len(text)} \ Punctuation
    IN  {text[i + 1] : i \in FindIter(<<ModelIdWords, words>>, text)}

\* self.model_families: the one-word families, alone or with a version
\* suffix ([-_]?(\d+|v\d+)?), and the two-word family
OneWordFamilies ==
    {"transformer", "gpt", "bert", "t5", "llama", "clip", "dalle", "cnn",
     "resnet", "vit", "swin", "yolo", "diffusion", "vae", "gan"}

VersionedFamilyWords == {"gpt-2", "gpt2", "gpt-v2", "bert-2", "llama-3", "t5-11"}

FamilyMentions(text) ==
    {text[i] : i \in {j \in 1..Len(text) :
                        text[j] \in OneWordFamilies \cup VersionedFamilyWords}}
    \cup {"stable diffusion" : i \in {j \in 1..(Len(text) - 1) :
                        text[j] = "stable" /\ text[j + 1] = "diffusion"}}

\* doc.ents with label ORG or PRODUCT: the spaCy pipeline may tag any
\* words of the text it is given; at most MaxEntities of them
MaxEntities == 1

EntityOutcomes(text) ==
    {e \in SUBSET {text[i] : i \in 1..Len(text)} : Cardinality(e) <= MaxEntities}

\* _extract_model_mentions: the set behind list(set(model_ids)); the
\* patterns run on query_text.lower(), the pipeline on query_text
_extract_model_mentions(text, ents) ==
    ExplicitMentions(LowerText(text)) \cup ents \cup FamilyMentions(LowerText(text))

(***************************************************************************)
(* QueryParser.classify_intent                                             *)
(*                                                                         *)
(* The reply of the LLM chain is a sequence of pieces whose concatenation  *)
(* is the reply string: the six intent names, a double quote, a colon, a   *)
(* blank, a word holding no intent name, and a capitalized intent name.    *)
(***************************************************************************)
\* [intent.value for intent in QueryIntent], in definition order
intents ==
    <<"retrieval", "comparison", "notebook", "image_search", "metadata", "unknown">>

IntentMemberOrder ==
    <<"RETRIEVAL", "COMPARISON", "NOTEBOOK", "IMAGE_SEARCH", "METADATA", "UNKNOWN">>

ReplyPieces == {intents[i] : i \in 1..6} \cup {"\"", ":", " ", "x", "Notebook"}

Min(S) == CHOOSE x \in S : \A y \in S : x <= y

\* str.strip()
RECURSIVE Strip(_)
Strip(q) ==
    IF q = <<>> THEN q
    ELSE IF Head(q) = " " THEN Strip(Tail(q))
    ELSE IF q[Len(q)] = " " THEN Strip(SubSeq(q, 1, Len(q) - 1))
    ELSE q

\* re.compile(r'"([^"]*)"').findall(raw), scanning from piece i
RECURSIVE QuotedFrom(_, _)
QuotedFrom(raw, i) ==
    LET opening == {a \in i..Len(raw) : raw[a] = "\""}
    IN  IF opening = {} THEN <<>>
        ELSE LET a == Min(opening)
                 closing == {b \in (a + 1)..Len(raw) : raw[b] = "\""}
             IN  IF closing = {} THEN <<>>
                 ELSE <<SubSeq(raw, a + 1, Min(closing) - 1)>>
                      \o QuotedFrom(raw, Min(closing) + 1)

NoResult == ""

\* the first intent name of the list `intents` that lies in names
FirstIntent(names) ==
    IF \E k \in 1..6 : intents[k] \in names
    THEN intents[Min({k \in 1..6 : intents[k] \in names})]
    ELSE NoResult

\* quoted_text.startswith(intent) or quoted_text.startswith(f"{intent}:")
StartsWith(quoted, name) == Len(quoted) >= 1 /\ quoted[1] = name

\* intent in text
Contains(text, name) == \E i \in 1..Len(text) : text[i] = name

\* lines 241-251: the first quoted text that starts with an intent name
QuotedResult(raw) ==
    LET quoted_matches == QuotedFrom(raw, 1)
        hits == {n \in 1..Len(quoted_matches) :
                    \E k \in 1..6 : StartsWith(quoted_matches[n], intents[k])}
    IN  IF hits = {} THEN NoResult
        ELSE FirstIntent({intents[k] : k \in {j \in 1..6 :
                    StartsWith(quoted_matches[Min(hits)], intents[j])}})

\* lines 254-258: direct word matching
DirectResult(raw) ==
    FirstIntent({intents[k] : k \in {j \in 1..6 : Contains(raw, intents[j])}})

\* lines 261-267: raw_result.split(":")[0].strip()
ColonResult(raw) ==
    IF ~Contains(raw, ":") THEN NoResult
    ELSE LET possible_intent ==
                Strip(SubSeq(raw, 1, Min({i \in 1..Len(raw) : raw[i] = ":"}) - 1))
         IN  FirstIntent({intents[k] : k \in {j \in 1..6 :
                    Contains(possible_intent, intents[j])}})

\* lines 236-267: the three extraction steps
ExtractedIntent(raw) ==
    IF QuotedResult(raw) # NoResult THEN QuotedResult(raw)
    ELSE IF DirectResult(raw) # NoResult THEN DirectResult(raw)
    ELSE ColonResult(raw)

\* the member whose value is the name
MemberOfValue(name) ==
    IntentMemberOrder[CHOOSE k \in 1..6 : intents[k] = name]

\* a default of UNKNOWN
LangchainDefault_Unknown == "UNKNOWN"

\* line 277: the member returned when no step found a name
LangchainDefault == "RETRIEVAL"

\* lines 231-277 for a reply that is a string
LangchainIntent(reply) ==
    LET raw_result == LowerText(Strip(reply))
    IN  IF ExtractedIntent(raw_result) # NoResult
        THEN MemberOfValue(ExtractedIntent(raw_result))
        ELSE LangchainDefault

\* lines 283-305 on query_lower: a member name, or NoResult to go on to
\* _nlp_based_intent_classification
RuleBasedIntent(query_lower, mentions) ==
    IF Cardinality(mentions) > 1
       /\ MatchesAny(intent_patterns["COMPARISON"], query_lower)
    THEN "COMPARISON"
    ELSE IF MatchesAny(intent_patterns["NOTEBOOK"], query_lower) THEN "NOTEBOOK"
    ELSE IF MatchesAny(intent_patterns["IMAGE_SEARCH"], query_lower) THEN "IMAGE_SEARCH"
    ELSE IF MatchesAny(intent_patterns["METADATA"], query_lower) THEN "METADATA"
    ELSE IF MatchesAny(intent_patterns["RETRIEVAL"], query_lower)
            \/ Cardinality(mentions) > 0
    THEN "RETRIEVAL"
    ELSE NoResult

\* token.pos_ of each word, as the spaCy pipeline tags it
PosTags == {"VERB", "NOUN", "X"}

\* token.lemma_: the words of the vocabulary are base forms
Lemma(w) == Lower(w)

Verbs(text, tagging) == {Lemma(text[i]) : i \in {j \in 1..Len(text) : tagging[j] = "VERB"}}
Nouns(text, tagging) == {Lemma(text[i]) : i \in {j \in 1..Len(text) : tagging[j] = "NOUN"}}

\* _nlp_based_intent_classification, lines 327-353
NlpBasedIntent(verbs, nouns) ==
    IF verbs \cap {"compare", "contrast", "differ", "distinguish", "evaluate"} # {}
       /\ Cardinality(nouns) > 1
    THEN "COMPARISON"
    ELSE IF nouns \cap {"notebook", "colab", "code", "script", "analysis"} # {}
    THEN "NOTEBOOK"
    ELSE IF nouns \cap {"image", "picture", "photo", "visualization", "render",
                        "sample"} # {}
    THEN "IMAGE_SEARCH"
    ELSE IF nouns \cap {"metadata", "schema", "field", "property", "attribute",
                        "structure"} # {}
    THEN "METADATA"
    ELSE IF nouns \cap {"model", "transformer", "neural", "network", "ai",
                        "architecture"} # {}
    THEN "RETRIEVAL"
    ELSE "UNKNOWN"

\* the queries and chain replies of the classification runs
MaxQueryLen == 3
MaxReplyLen == 3

ClassifyWords ==
    {"compare", "find", "image", "jupyter", "metadata", "gpt", "GPT", "bert",
     "model", "hello"}

Texts(words, n) == UNION {[1..k -> words] : k \in 0..n}

\* what invoking a chain can do: raise, hand back something that is no
\* string (.strip() raises), or hand back a string
ChainRaises == [t |-> "raise"]
ChainObject == [t |-> "object"]

ChainErrors == {ChainRaises, ChainObject}

SampleQueries ==
    {<<"jupyter">>, <<"compare", "gpt", "bert">>, <<"hello">>}

\* longer queries in which several patterns meet
LongQueries ==
    {<<"compare", "gpt", "bert", "jupyter">>,
     <<"find", "image", "Compare", "gpt", "bert">>,
     <<"find", "image", "metadata", "jupyter">>}

DispatchIdle ==
    /\ caller_intent = None
    /\ parameters = EmptyDict
    /\ caller_parameters = EmptyDict
    /\ user_id = None
    /\ access_control_manager = None
    /\ analytics = None
    /\ results = Pending
    /\ chroma_manager = None
    /\ tasks = <<>>

ClassifyInit ==
    /\ pc = "classify_intent"
    /\ intent = None
    /\ calls = <<>>
    /\ outcome = Pending
    /\ model_mentions = {}
    /\ doc = <<>>
    /\ param_reply = None
    /\ stack = <<>>
    /\ re_bound = FALSE
    /\ DispatchIdle
    /\ \/ /\ query_text \in Texts(ClassifyWords, MaxQueryLen)
          /\ \/ use_langchain = FALSE /\ chain_reply = None
             \/ use_langchain = TRUE /\ chain_reply = ChainRaises
       \/ /\ query_text \in LongQueries
          /\ use_langchain = FALSE
          /\ chain_reply = None
       \/ /\ query_text \in SampleQueries
          /\ use_langchain = TRUE
          /\ chain_reply \in ChainErrors
                \cup {PyStr(r) : r \in Texts(ReplyPieces, MaxReplyLen)}

\* lines 228-277: the chain answers with a string; the import of line 240
\* binds the local name re, and the try block returns
classify_langchain ==
    /\ pc = "classify_intent"
    /\ use_langchain
    /\ chain_reply.t = "str"
    /\ calls' = Append(calls, Call("intent_chain.invoke", PyList(query_text), chain_reply))
    /\ re_bound' = TRUE
    /\ outcome' = Returned(ParserIntent(LangchainIntent(chain_reply.v)))
    /\ pc' = "returned"
    /\ UNCHANGED <<intent, dispatch_only, handler_only, query_text, use_langchain, chain_reply,
                   model_mentions, doc, extract_only>>

\* lines 279-281: the chain (or .strip() on its reply) raises at line 231,
\* before the import of line 240
classify_langchain_error ==
    /\ pc = "classify_intent"
    /\ use_langchain
    /\ chain_reply.t # "str"
    /\ calls' = Append(calls, Call("intent_chain.invoke", PyList(query_text), chain_reply))
    /\ pc' = "rule_based"
    /\ UNCHANGED <<intent, outcome, dispatch_only, handler_only, query_text, use_langchain,
                   chain_reply, model_mentions, doc, re_bound, extract_only>>

\* line 228 false
classify_without_langchain ==
    /\ pc = "classify_intent"
    /\ ~use_langchain
    /\ pc' = "rule_based"
    /\ UNCHANGED <<intent, calls, outcome, dispatch_only, parser_only, handler_only>>

\* lines 283-308 and, from line 308, _nlp_based_intent_classification.
\* "import re" at line 240 makes re a local name of classify_intent, so
\* the first any(re.search(...)) that runs (line 288 with two mentions,
\* line 292 otherwise) raises NameError unless line 240 has been executed.
classify_rule_based ==
    /\ pc = "rule_based"
    /\ \E ents \in EntityOutcomes(query_text) :
          LET mentions == _extract_model_mentions(query_text, ents)
              member == RuleBasedIntent(LowerText(query_text), mentions)
              mention_call == Call("_extract_model_mentions", PyList(query_text), None)
          IN  /\ model_mentions' = mentions
              /\ IF ~re_bound
                 THEN /\ pc' = "raised"
                      /\ outcome' = Raised("NameError")
                      /\ calls' = Append(calls, mention_call)
                      /\ doc' = doc
                 ELSE IF member # NoResult
                 THEN /\ pc' = "returned"
                      /\ outcome' = Returned(ParserIntent(member))
                      /\ calls' = Append(calls, mention_call)
                      /\ doc' = doc
                 ELSE \E tagging \in [1..Len(query_text) -> PosTags] :
                      /\ pc' = "returned"
                      /\ outcome' = Returned(ParserIntent(NlpBasedIntent(
                             Verbs(query_text, tagging), Nouns(query_text, tagging))))
                      /\ calls' = calls \o <<mention_call,
                                             Call("nlp", PyList(query_text), None)>>
                      /\ doc' = tagging
    /\ UNCHANGED <<intent, dispatch_only, handler_only, query_text, use_langchain, chain_reply,
                   re_bound, extract_only>>

ClassifyNext ==
    \/ classify_langchain
    \/ classify_langchain_error
    \/ classify_without_langchain
    \/ classify_rule_based

SpecClassify == ClassifyInit /\ [][ClassifyNext]_vars

(***************************************************************************)
(* Properties of classify_intent                                           *)
(***************************************************************************)
Called(fn) == \E i \in 1..Len(calls) : calls[i].fn = fn
RuleTierRan == Called("_extract_model_mentions")
NlpTierRan == Called("nlp")
ClassifyDone == pc \in {"returned", "raised"}
QueryLower == LowerText(query_text)
PatternHit(member) == MatchesAny(intent_patterns[member], QueryLower)
ClassifiedAs(member) == pc = "returned" /\ outcome = Returned(ParserIntent(member))

C4_Intents ==
    {ParserIntent(m) : m \in {"RETRIEVAL", "COMPARISON", "NOTEBOOK",
                              "IMAGE_SEARCH", "METADATA", "UNKNOWN"}}

\* C4: classify_intent is total: whatever the query and whatever the chain
\* does (disabled, any reply, raising), no exception leaves it and what it
\* returns is one of the six members of QueryIntent.
C4_ClassifyIntentTotal ==
    /\ pc # "raised"
    /\ outcome.t # "raise"
    /\ pc = "returned" => outcome.t = "return" /\ outcome.value \in C4_Intents

\* the model identifiers the patterns find in the text itself
C5_TextMentions ==
    ExplicitMentions(QueryLower) \cup FamilyMentions(QueryLower)

\* C5: a text with two or more distinct model mentions and a comparison
\* pattern is classified Comparison, whatever other patterns match.
C5_ComparisonAlwaysWins ==
    (ClassifyDone /\ Cardinality(C5_TextMentions) >= 2 /\ PatternHit("COMPARISON"))
        => ClassifiedAs("COMPARISON")

ChainFailed == use_langchain /\ chain_reply.t # "str"
ChainNoMatch ==
    /\ use_langchain /\ chain_reply.t = "str"
    /\ ExtractedIntent(LowerText(Strip(chain_reply.v))) = NoResult

\* the call returned what tiers 2 and 3 determine for the text, given the
\* mentions the rule tier saw
C6_LowerTiersResult ==
    IF RuleBasedIntent(QueryLower, model_mentions) # NoResult
    THEN ClassifiedAs(RuleBasedIntent(QueryLower, model_mentions))
    ELSE \E tagging \in [1..Len(query_text) -> PosTags] :
            ClassifiedAs(NlpBasedIntent(Verbs(query_text, tagging),
                                        Nouns(query_text, tagging)))

\* C6: when the chain fails or its reply holds no intent name, nothing is
\* raised and the result is the one the rule tier and, after it, the
\* heuristic tier determine.
C6_FallsThroughOnFailureOrNoMatch ==
    (ClassifyDone /\ (ChainFailed \/ ChainNoMatch))
        => pc = "returned" /\ RuleTierRan /\ C6_LowerTiersResult

\* none of the three extraction steps finds a canonical name in the reply
C7_EveryExtractionFails ==
    LET raw == LowerText(Strip(chain_reply.v))
    IN  /\ \A n \in 1..Len(QuotedFrom(raw, 1)) : \A k \in 1..6 :
              ~StartsWith(QuotedFrom(raw, 1)[n], intents[k])
        /\ \A k \in 1..6 : ~Contains(raw, intents[k])

\* C7: when the chain replies and no extraction step finds a canonical
\* intent name, classify_intent returns Retrieval.
C7_NoMatchGivesRetrieval ==
    (ClassifyDone /\ use_langchain /\ chain_reply.t = "str" /\ C7_EveryExtractionFails)
        => ClassifiedAs("RETRIEVAL")

\* C7 witness: a reply with a colon and quotes but no intent name, for a
\* query whose text matches a notebook pattern, came back as Retrieval.
C7_Witness ==
    /\ use_langchain /\ chain_reply = PyStr(<<"\"", "x", ":">>)
    /\ query_text = <<"jupyter">>
    /\ ClassifiedAs("RETRIEVAL")

C8_Precedence == Cardinality(model_mentions) >= 2 /\ PatternHit("COMPARISON")

\* C8: in the rule tier, when the comparison precedence rule does not
\* apply, the intent is the first of Notebook, ImageSearch, Metadata whose
\* patterns match; if none matches it is Retrieval when a Retrieval pattern
\* matches or a model is mentioned; the heuristic tier is reached only when
\* none of these conditions holds.
C8_RuleTierPriority ==
    /\ (ClassifyDone /\ RuleTierRan /\ ~C8_Precedence) =>
          IF PatternHit("NOTEBOOK") THEN ClassifiedAs("NOTEBOOK")
          ELSE IF PatternHit("IMAGE_SEARCH") THEN ClassifiedAs("IMAGE_SEARCH")
          ELSE IF PatternHit("METADATA") THEN ClassifiedAs("METADATA")
          ELSE IF PatternHit("RETRIEVAL") \/ model_mentions # {}
               THEN ClassifiedAs("RETRIEVAL")
          ELSE NlpTierRan
    /\ NlpTierRan =>
          /\ ~C8_Precedence
          /\ \A m \in {"NOTEBOOK", "IMAGE_SEARCH", "METADATA", "RETRIEVAL"} :
                ~PatternHit(m)
          /\ model_mentions = {}

(***************************************************************************)
(* QueryParser.extract_parameters: the rule-based extraction               *)
(*                                                                         *)
(* The character classes of the patterns are sets of words: a word lies    *)
(* in a class when all its characters do.  "gpt-2" leaves [\w\s,] after    *)
(* "gpt"; ">" and "," lie in no class of word characters.                  *)
(***************************************************************************)
PyBool(b) == [t |-> "bool", v |-> b]

\* " ".join(words)
RECURSIVE Join(_)
Join(words) ==
    IF words = <<>> THEN ""
    ELSE IF Len(words) = 1 THEN words[1]
    ELSE words[1] \o " " \o Join(Tail(words))

Max(S) == CHOOSE x \in S : \A y \in S : x >= y

\* d[key] = value, and d.update(e)
Put(d, key, value) ==
    [k \in DOMAIN d \cup {key} |-> IF k = key THEN value ELSE d[k]]
Update(d, e) ==
    [k \in DOMAIN d \cup DOMAIN e |-> IF k \in DOMAIN e THEN e[k] ELSE d[k]]

\* the words that start with digits, and int() of those digits
NumberWords == {"0", "5", "7b", "512", "2023"}
LeadingNumber(w) ==
    CASE w = "0" -> 0 [] w = "5" -> 5 [] w = "7b" -> 7
      [] w = "512" -> 512 [] w = "2023" -> 2023
\* the words made of digits only
DigitWords == {"0", "5", "512", "2023"}
\* the words with a hyphen, and what [\w]+ takes of them
HyphenWords == {"gpt-2"}
WordPrefix(w) == IF w = "gpt-2" THEN "gpt" ELSE w

WordsOf(text) == {text[i] : i \in 1..Len(text)}
\* [a-zA-Z0-9_-]+ , [a-zA-Z_]+ , [\w]+ on whole words of the text
IdWords(text) == WordsOf(text) \ Punctuation
AlphaWords(text) == WordsOf(text) \ (Punctuation \cup NumberWords \cup HyphenWords)
PlainWords(text) == WordsOf(text) \ (Punctuation \cup HyphenWords)

\* a greedy group ([\w\s,]+ and the like) starting at word i: the words it
\* takes, and whether it ends with the blank before a word it cannot enter
RECURSIVE Run(_, _, _, _)
Run(text, i, full, partial) ==
    IF i > Len(text) THEN [words |-> <<>>, blank |-> FALSE]
    ELSE IF text[i] \in full
    THEN LET rest == Run(text, i + 1, full, partial)
         IN  [words |-> <<text[i]>> \o rest.words, blank |-> rest.blank]
    ELSE IF text[i] \in partial
    THEN [words |-> <<WordPrefix(text[i])>>, blank |-> FALSE]
    ELSE [words |-> <<>>, blank |-> TRUE]

\* [\w\s,]+
WordsAndCommas(text, i) ==
    Run(text, i, PlainWords(text) \cup {","}, HyphenWords)
\* [\w\s-]+
WordsAndHyphens(text, i) == Run(text, i, IdWords(text), {})

\* re.split(r',|\sand\s', group), each part stripped, the empty ones
\* dropped: "and" separates only with a blank on either side that no
\* earlier separator has taken
RECURSIVE SplitFrom(_, _, _, _)
SplitFrom(group, i, part, blank_before) ==
    LET flush == IF part = <<>> THEN <<>> ELSE <<Join(part)>>
    IN  IF i > Len(group.words) THEN flush
        ELSE IF group.words[i] = ","
        THEN flush \o SplitFrom(group, i + 1, <<>>, TRUE)
        ELSE IF group.words[i] = "and" /\ blank_before
                /\ (i < Len(group.words) \/ group.blank)
        THEN flush \o SplitFrom(group, i + 1, <<>>, FALSE)
        ELSE SplitFrom(group, i + 1, Append(part, group.words[i]), TRUE)

Split(group) == SplitFrom(group, 1, <<>>, FALSE)

\* re.search for a keyword followed by a greedy group: the first word after
\* which the group is not empty, 0 if there is none; the group is
\* [\w\s-]+ when hyphens is TRUE and [\w\s,]+ otherwise
KeywordGroupAt(keywords, text, hyphens) ==
    LET Group(i) == IF hyphens THEN WordsAndHyphens(text, i)
                    ELSE WordsAndCommas(text, i)
        hits == {i \in 1..Len(text) :
                    text[i] \in keywords /\ Group(i + 1).words # <<>>}
    IN  IF hits = {} THEN 0 ELSE Min(hits)

\* self.metric_pattern, lines 404-408: every occurrence, in order
MetricWords ==
    {"accuracy", "loss", "perplexity", "clip_score", "clip-score", "clipscore",
     "performance"}
ExtractMetrics(text) == SelectSeq(text, LAMBDA w : w \in MetricWords)

\* self.filter_patterns, lines 162-167
ArchitectureWords == {"transformer", "cnn", "rnn", "mlp", "diffusion", "gan"}
FrameworkWords == {"pytorch", "tensorflow", "jax"}
ParamsWords == {"parameters", "params"}
DateFields == {"created", "modified", "updated"}
DateOperators == {"before", "after", "between", "since"}

\* the params pattern, one template per operator alternative
ParamsTemplates ==
    {<<ParamsWords, {"greater"}, {"than"}, NumberWords>>,
     <<ParamsWords, {"less"}, {"than"}, NumberWords>>,
     <<ParamsWords, {"equal"}, {"to"}, NumberWords>>,
     <<ParamsWords, {">", "<", "="}, NumberWords>>}

\* lines 411-430: for each filter the last match is the one that stays
ExtractFilters(text) ==
    LET arch == FindIter(<<{"architecture"}, ArchitectureWords>>, text)
        frame == FindIter(<<{"framework"}, FrameworkWords>>, text)
        params == {<<i, tpl>> \in (1..Len(text)) \X ParamsTemplates :
                      i \in FindIter(tpl, text)}
        date == FindIter(<<DateFields, DateOperators, IdWords(text)>>, text)
        last_params == CHOOSE m \in params : \A n \in params : m[1] >= n[1]
        f1 == IF arch = {} THEN EmptyDict
              ELSE Put(EmptyDict, "architecture", PyStr(text[Max(arch) + 1]))
        f2 == IF frame = {} THEN f1
              ELSE Put(f1, "framework", PyStr(text[Max(frame) + 1]))
        f3 == IF params = {} THEN f2
              ELSE LET at == last_params[1]
                       n == Len(last_params[2])
                   IN  Put(f2, "params", PyDict(
                           [operator |-> PyStr(Join(SubSeq(text, at + 1, at + n - 2))),
                            value |-> PyStr(text[at + n - 1])]))
    IN  IF date = {} THEN f3
        ELSE LET at == Max(date)
             IN  Put(f3, "date", PyDict(
                     [field |-> PyStr(text[at]),
                      operator |-> PyStr(text[at + 1]),
                      value |-> PyStr(text[at + 2])]))

\* self.limit_pattern, lines 433-435: the first match; None without one
LimitWords == {"limit", "top", "first"}
ExtractLimit(text) ==
    LET hits == {i \in 1..Len(text) : MatchesAt(<<LimitWords, NumberWords>>, text, i)}
    IN  IF hits = {} THEN None ELSE PyInt(LeadingNumber(text[Min(hits) + 1]))

\* self.sort_pattern, lines 438-443: the field must be followed by a blank,
\* so by another word; the order is that word if it names one
OrderWords == {"ascending", "descending", "asc", "desc"}
ExtractSort(text) ==
    LET hits == {i \in 1..Len(text) :
                    /\ MatchesAt(<<{"sort", "order"}, {"by", "on"}, AlphaWords(text)>>,
                                 text, i)
                    /\ i + 3 <= Len(text)}
    IN  IF hits = {} THEN None
        ELSE LET at == Min(hits)
             IN  PyDict([field |-> PyStr(text[at + 2]),
                         order |-> PyStr(IF text[at + 3] \in OrderWords
                                         THEN text[at + 3] ELSE "descending")])

\* _extract_comparison_parameters, lines 486-514
CompareWords == {"compare", "comparing", "comparison"}
VisualizeWords == {"show", "display", "visualize", "plot", "graph", "chart"}
_extract_comparison_parameters(text) ==
    LET hits == {i \in 1..Len(text) :
                    /\ text[i] \in CompareWords
                    /\ \/ /\ MatchesAt(<<CompareWords, {"on", "by", "regarding"}>>, text, i)
                          /\ WordsAndCommas(text, i + 2).words # <<>>
                       \/ /\ MatchesAt(<<CompareWords, {"in"}, {"terms"}, {"of"}>>, text, i)
                          /\ WordsAndCommas(text, i + 4).words # <<>>}
        at == Min(hits)
        dimensions ==
            IF hits = {} THEN <<>>
            ELSE IF text[at + 1] = "in" THEN Split(WordsAndCommas(text, at + 4))
            ELSE Split(WordsAndCommas(text, at + 2))
        p1 == IF dimensions = <<>> THEN EmptyDict
              ELSE Put(EmptyDict, "comparison_dimensions", PyList(dimensions))
    IN  IF WordsOf(text) \cap VisualizeWords = {} THEN p1
        ELSE Put(p1, "visualize", PyBool(TRUE))

\* _extract_notebook_parameters, lines 516-552; "data" is also found at the
\* end of "metadata"
AnalysisWords == {"analyze", "analysis", "examine", "study", "investigate"}
DatasetWords == {"dataset", "data", "metadata"}
ResourceWords == {"resources", "gpu", "memory", "cpu"}
_extract_notebook_parameters(text) ==
    LET analysis == KeywordGroupAt(AnalysisWords, text, FALSE)
        analysis_types ==
            IF analysis = 0 THEN <<>> ELSE Split(WordsAndCommas(text, analysis + 1))
        dataset == KeywordGroupAt(DatasetWords, text, TRUE)
        \* (using|with) ([\w\s]+) (resources|gpu|memory|cpu): the group is
        \* greedy, so it ends before the last resource word it can reach
        ends(i) == {k \in (i + 2)..Len(text) :
                      /\ text[k] \in ResourceWords
                      /\ \A j \in (i + 1)..(k - 1) : text[j] \in PlainWords(text)}
        starts == {i \in 1..Len(text) : text[i] \in {"using", "with"} /\ ends(i) # {}}
        p1 == IF analysis_types = <<>> THEN EmptyDict
              ELSE Put(EmptyDict, "analysis_types", PyList(analysis_types))
        p2 == IF dataset = 0 THEN p1
              ELSE Put(p1, "dataset",
                       PyStr(Join(WordsAndHyphens(text, dataset + 1).words)))
    IN  IF starts = {} THEN p2
        ELSE LET i == Min(starts)
             IN  Put(p2, "resources", PyStr(Join(SubSeq(text, i + 1, Max(ends(i)) - 1))))

\* _extract_image_parameters, lines 554-589
PromptWords == {"prompt", "prompts", "text"}
StyleWords == {"style", "type", "category", "look"}
ResolutionWords == {"resolution", "size", "dimensions"}
_extract_image_parameters(text) ==
    LET prompt == KeywordGroupAt(PromptWords, text, FALSE)
        style == KeywordGroupAt(StyleWords, text, FALSE)
        resolution ==
            {i \in 1..Len(text) :
                MatchesAt(<<ResolutionWords, DigitWords, {"x"}, NumberWords>>, text, i)}
        p1 == IF prompt = 0 THEN EmptyDict
              ELSE Put(EmptyDict, "prompt_terms",
                       PyStr(Join(WordsAndCommas(text, prompt + 1).words)))
        p2 == IF style = 0 THEN p1
              ELSE Put(p1, "style_tags", PyList(Split(WordsAndCommas(text, style + 1))))
    IN  IF resolution = {} THEN p2
        ELSE LET at == Min(resolution)
             IN  Put(p2, "resolution", PyDict(
                     [width |-> PyInt(LeadingNumber(text[at + 1])),
                      height |-> PyInt(LeadingNumber(text[at + 3]))]))

\* lines 446-451
IntentSpecificParameters(text, member) ==
    CASE member = "COMPARISON"   -> _extract_comparison_parameters(text)
      [] member = "NOTEBOOK"     -> _extract_notebook_parameters(text)
      [] member = "IMAGE_SEARCH" -> _extract_image_parameters(text)
      [] OTHER                   -> EmptyDict

\* list(set(model_ids)): the elements of the set in some order
RECURSIVE Orders(_)
Orders(S) ==
    IF S = {} THEN {<<>>}
    ELSE UNION {{<<x>> \o q : q \in Orders(S \ {x})} : x \in S}

\* lines 403-451 on query_text.lower(): every key but model_ids
PatternParameters(text, member) ==
    LET metrics == ExtractMetrics(text)
        filters == ExtractFilters(text)
        limit == ExtractLimit(text)
        sort_by == ExtractSort(text)
        p2 == IF metrics = <<>> THEN EmptyDict
              ELSE Put(EmptyDict, "metrics", PyList(metrics))
        p3 == IF DOMAIN filters = {} THEN p2 ELSE Put(p2, "filters", PyDict(filters))
        p4 == IF limit = None THEN p3 ELSE Put(p3, "limit", limit)
        p5 == IF sort_by = None THEN p4 ELSE Put(p4, "sort_by", sort_by)
    IN  Update(p5, IntentSpecificParameters(text, member))

\* lines 397-453: model_ids is set first, whatever the list holds, then
\* the keys the patterns give
RuleBasedParameters(model_ids, pattern_parameters) ==
    Update(Put(EmptyDict, "model_ids", PyList(model_ids)), pattern_parameters)

(***************************************************************************)
(* QueryParser.extract_parameters: the parameter chain                     *)
(*                                                                         *)
(* The reply of the chain is a sequence of pieces whose concatenation is   *)
(* the reply string: a code fence, the word json, a blank, a word of       *)
(* prose, and JSON documents of every kind, one of them malformed.         *)
(***************************************************************************)
\* the piece that stands for three backquotes
Fence == "<fence>"
JsonDocuments == {"{}", "{\"limit\": 0}", "[1, 2]", "5", "null"}
ParamReplyPieces == {Fence, "json", " ", "Here", "{bad"} \cup JsonDocuments

\* json.loads of one well-formed document
JsonValue(document) ==
    CASE document = "{}"               -> PyDict(EmptyDict)
      [] document = "{\"limit\": 0}"   -> PyDict([limit |-> PyInt(0)])
      [] document = "[1, 2]"           -> PyList(<<PyInt(1), PyInt(2)>>)
      [] document = "5"                -> PyInt(5)
      [] document = "null"             -> None

\* int() of a string of fives
RECURSIVE Fives(_)
Fives(n) == IF n = 0 THEN 0 ELSE 10 * Fives(n - 1) + 5

\* lines 378-383: the text of the first fenced block without a leading
\* "json" and blanks, or the whole reply; both stripped
JsonString(raw) ==
    LET fences == {i \in 1..Len(raw) : raw[i] = Fence}
        open == Min(fences)
        close == Min(fences \ {open})
        inner == SubSeq(raw, open + 1, close - 1)
    IN  IF Cardinality(fences) >= 2
        THEN IF inner # <<>> /\ inner[1] = "json" THEN Strip(Tail(inner))
             ELSE Strip(inner)
        ELSE Strip(raw)

\* lines 385-391: json.loads(json_str); ok is FALSE for JSONDecodeError.
\* Pieces put side by side make one document only when all are digits.
JsonLoads(json_str) ==
    IF Len(json_str) = 1 /\ json_str[1] \in JsonDocuments
    THEN [ok |-> TRUE, value |-> JsonValue(json_str[1])]
    ELSE IF json_str # <<>> /\ \A i \in 1..Len(json_str) : json_str[i] = "5"
    THEN [ok |-> TRUE, value |-> PyInt(Fives(Len(json_str)))]
    ELSE [ok |-> FALSE, value |-> None]

(***************************************************************************)
(* Runs of extract_parameters                                              *)
(***************************************************************************)
MaxPhrases == 2
MaxParamReplyLen == 3

\* the phrases the query texts are made of
Phrases ==
    {<<"gpt">>, <<"model", "bert">>, <<"accuracy">>,
     <<"architecture", "transformer">>, <<"params", ">", "7b">>,
     <<"created", "after", "2023">>, <<"top", "0">>, <<"sort", "by", "name">>,
     <<"compare", "on", "performance">>, <<"and">>, <<"show">>, <<"style", ",">>}

RECURSIVE Flatten(_)
Flatten(phrases) ==
    IF phrases = <<>> THEN <<>> ELSE Head(phrases) \o Flatten(Tail(phrases))

ExtractTexts == {Flatten(ps) : ps \in Texts(Phrases, MaxPhrases)}

ExtractSamples == {<<"top", "5">>, <<"hello">>}

\* longer queries, among them the example of the specification
LongExtractQueries ==
    {<<"compare", "gpt-2", "and", "bert", "on", "performance", "and", "architecture">>,
     <<"Compare", "on", "accuracy", "and", "GPT", "gpt-2">>,
     <<"sort", "by", "name", "asc", "top", "5">>,
     <<"analyze", "data", "using", "two", "gpu">>,
     <<"style", "anime", "and", "noir", "prompt", "cat", "resolution", "512", "x", "512">>}

ExtractIntents ==
    {ParserIntent(m) : m \in {"RETRIEVAL", "COMPARISON", "NOTEBOOK", "IMAGE_SEARCH"}}

ExtractInit ==
    /\ pc = "extract_parameters"
    /\ calls = <<>>
    /\ outcome = Pending
    /\ model_mentions = {}
    /\ doc = <<>>
    /\ stack = <<>>
    /\ re_bound = FALSE
    /\ DispatchIdle
    /\ \/ /\ query_text \in ExtractTexts \cup LongExtractQueries
          /\ intent \in ExtractIntents
          /\ use_langchain = TRUE
          /\ chain_reply = None
          /\ param_reply = ChainRaises
       \/ /\ query_text \in ExtractSamples \cup LongExtractQueries
          /\ intent \in ExtractIntents
          /\ use_langchain = FALSE
          /\ chain_reply = None
          /\ param_reply = None
       \/ /\ query_text \in ExtractSamples
          /\ intent = ParserIntent("RETRIEVAL")
          /\ use_langchain = TRUE
          /\ chain_reply = None
          /\ param_reply \in ChainErrors
                \cup {PyStr(r) : r \in Texts(ParamReplyPieces, MaxParamReplyLen)}
       \/ /\ query_text \in ExtractSamples
          /\ intent = None
          /\ \/ /\ use_langchain = FALSE
                /\ chain_reply = None
                /\ param_reply = None
             \/ /\ use_langchain = TRUE
                /\ chain_reply \in {ChainRaises, PyStr(<<"comparison">>), PyStr(<<"x">>)}
                /\ param_reply \in {ChainRaises, PyStr(<<"{}">>), PyStr(<<"null">>)}

\* lines 366-367: no intent given, classify_intent is called
extract_classify_intent ==
    /\ pc = "extract_parameters"
    /\ intent = None
    /\ pc' = "classify_intent"
    /\ stack' = <<"extract_parameters">>
    /\ UNCHANGED <<intent, calls, outcome, dispatch_only, handler_only, query_text, use_langchain,
                   chain_reply, model_mentions, doc, re_bound, param_reply>>

\* line 367: classify_intent returned; re is again the local name of
\* extract_parameters, which no import has bound yet
extract_intent_classified ==
    /\ pc = "returned"
    /\ stack = <<"extract_parameters">>
    /\ intent' = outcome.value
    /\ outcome' = Pending
    /\ stack' = <<>>
    /\ re_bound' = FALSE
    /\ pc' = "param_chain"
    /\ UNCHANGED <<calls, dispatch_only, handler_only, query_text, use_langchain, chain_reply,
                   model_mentions, doc, param_reply>>

\* line 367 is outside the try block: what classify_intent raises leaves
\* extract_parameters
extract_classify_raised ==
    /\ pc = "raised"
    /\ stack = <<"extract_parameters">>
    /\ stack' = <<>>
    /\ UNCHANGED <<pc, intent, calls, outcome, dispatch_only, handler_only, query_text, use_langchain,
                   chain_reply, model_mentions, doc, re_bound, param_reply>>

\* line 366 false: the caller gave the intent
extract_with_intent ==
    /\ pc = "extract_parameters"
    /\ intent # None
    /\ pc' = "param_chain"
    /\ UNCHANGED <<intent, calls, outcome, dispatch_only, parser_only, handler_only>>

\* lines 369-391: the imports of lines 372-373 bind the local name re, the
\* chain answers with a string; what json.loads makes of it is returned,
\* and a JSONDecodeError goes on to the rule-based part
extract_langchain ==
    /\ pc = "param_chain"
    /\ use_langchain
    /\ param_reply.t = "str"
    /\ calls' = Append(calls, Call("param_chain.invoke", PyList(query_text), param_reply))
    /\ re_bound' = TRUE
    /\ LET params == JsonLoads(JsonString(param_reply.v))
       IN  IF params.ok
           THEN pc' = "returned" /\ outcome' = Returned(params.value)
           ELSE pc' = "rule_based_extraction" /\ outcome' = outcome
    /\ UNCHANGED <<intent, dispatch_only, handler_only, query_text, use_langchain, chain_reply,
                   model_mentions, doc, extract_only>>

\* lines 393-395: after the imports the chain raises, or re.search raises
\* on what it returned
extract_langchain_error ==
    /\ pc = "param_chain"
    /\ use_langchain
    /\ param_reply.t # "str"
    /\ calls' = Append(calls, Call("param_chain.invoke", PyList(query_text), param_reply))
    /\ re_bound' = TRUE
    /\ pc' = "rule_based_extraction"
    /\ UNCHANGED <<intent, outcome, dispatch_only, handler_only, query_text, use_langchain,
                   chain_reply, model_mentions, doc, extract_only>>

\* line 369 false
extract_without_langchain ==
    /\ pc = "param_chain"
    /\ ~use_langchain
    /\ pc' = "rule_based_extraction"
    /\ UNCHANGED <<intent, calls, outcome, dispatch_only, parser_only, handler_only>>

\* the member a QueryParser intent stands for, "" for any other value
IntentMember(i) == IF i.t = "query_parser.QueryIntent" THEN i.v ELSE ""

\* lines 397-453.  "import re" at line 373 makes re a local name of
\* extract_parameters: unless that line has been executed, re.finditer at
\* line 405 raises UnboundLocalError, after the call of line 401.
extract_rule_based ==
    /\ pc = "rule_based_extraction"
    /\ LET found == PatternParameters(LowerText(query_text), IntentMember(intent))
       IN  \E ents \in EntityOutcomes(query_text) :
             \E model_ids \in Orders(_extract_model_mentions(query_text, ents)) :
                /\ model_mentions' = _extract_model_mentions(query_text, ents)
                /\ IF re_bound
                   THEN /\ pc' = "returned"
                        /\ outcome' = Returned(PyDict(
                               RuleBasedParameters(model_ids, found)))
                   ELSE /\ pc' = "raised"
                        /\ outcome' = Raised("UnboundLocalError")
    /\ calls' = Append(calls, Call("_extract_model_mentions", PyList(query_text), None))
    /\ UNCHANGED <<intent, dispatch_only, handler_only, query_text, use_langchain, chain_reply, doc,
                   re_bound, extract_only>>

ExtractNext ==
    \/ extract_classify_intent
    \/ ClassifyNext
    \/ extract_intent_classified
    \/ extract_classify_raised
    \/ extract_with_intent
    \/ extract_langchain
    \/ extract_langchain_error
    \/ extract_without_langchain
    \/ extract_rule_based

SpecExtract == ExtractInit /\ [][ExtractNext]_vars

(***************************************************************************)
(* Properties of extract_parameters                                        *)
(***************************************************************************)
ExtractDone == pc \in {"returned", "raised"} /\ stack = <<>>

\* the rule-based part ran after the parameter chain was invoked
C9_RuleBasedAfterChain ==
    \E i, j \in 1..Len(calls) :
        /\ i < j
        /\ calls[i].fn = "param_chain.invoke"
        /\ calls[j].fn = "_extract_model_mentions"

\* the reply of the chain holds a JSON object where the code looks for one
C9_ReplyIsObject ==
    LET params == JsonLoads(JsonString(param_reply.v))
    IN  params.ok /\ params.value.t = "dict"

\* C9: extract_parameters is total and always returns a mapping, whatever
\* the parameter chain replies; a reply that cannot be parsed as a JSON
\* object falls through to the rule-based extraction.
C9_AlwaysAParameterBag ==
    /\ pc # "raised"
    /\ outcome.t # "raise"
    /\ ExtractDone => outcome.t = "return" /\ outcome.value.t = "dict"
    /\ (ExtractDone /\ use_langchain /\ param_reply.t = "str" /\ ~C9_ReplyIsObject)
          => C9_RuleBasedAfterChain

\* the bag came from the rule-based part
C10_RuleBasedBag ==
    /\ pc = "returned"
    /\ stack = <<>>
    /\ calls # <<>>
    /\ calls[Len(calls)].fn = "_extract_model_mentions"

\* None, or an empty list, string or dict
C10_Placeholder(value) ==
    \/ value.t = "none"
    \/ value.t = "list" /\ value.v = <<>>
    \/ value.t = "str" /\ value.v = ""
    \/ value.t = "dict" /\ DOMAIN value.v = {}

\* C10: in the bag of the rule-based extraction a key is present only if
\* its sub-step found a match in the text, and no key maps to None or to an
\* empty placeholder.
C10_KeysOnlyForMatches ==
    C10_RuleBasedBag =>
        LET bag == outcome.value.v
            keys == DOMAIN outcome.value.v
            words == WordsOf(QueryLower)
            OnlyWith(key, keywords) == key \in keys => words \cap keywords # {}
        IN  /\ "model_ids" \in keys => model_mentions # {}
            /\ OnlyWith("metrics", MetricWords)
            /\ OnlyWith("filters", {"architecture", "framework"} \cup ParamsWords
                                       \cup DateFields)
            /\ OnlyWith("limit", LimitWords)
            /\ OnlyWith("sort_by", {"sort", "order"})
            /\ OnlyWith("comparison_dimensions", CompareWords)
            /\ OnlyWith("visualize", VisualizeWords)
            /\ OnlyWith("analysis_types", AnalysisWords)
            /\ OnlyWith("dataset", DatasetWords)
            /\ OnlyWith("resources", ResourceWords)
            /\ OnlyWith("prompt_terms", PromptWords)
            /\ OnlyWith("style_tags", StyleWords)
            /\ OnlyWith("resolution", ResolutionWords)
            /\ \A key \in keys : ~C10_Placeholder(bag[key])

\* the example query of the specification
C28_Query ==
    <<"compare", "gpt-2", "and", "bert", "on", "performance", "and", "architecture">>

\* C28: for the query "compare gpt-2 and bert on performance and
\* architecture" with intent Comparison the rule-based extraction returns a
\* bag whose model_ids hold gpt-2 and bert and whose comparison_dimensions
\* are performance, architecture, in that order.
C28_ComparisonQueryParsed ==
    (/\ ExtractDone
     /\ query_text = C28_Query
     /\ intent = ParserIntent("COMPARISON")
     /\ \E i \in 1..Len(calls) : calls[i].fn = "_extract_model_mentions")
    => /\ pc = "returned"
       /\ outcome.t = "return"
       /\ outcome.value.t = "dict"
       /\ "model_ids" \in DOMAIN outcome.value.v
       /\ {"gpt-2", "bert"} \subseteq
             {outcome.value.v["model_ids"].v[i] :
                 i \in 1..Len(outcome.value.v["model_ids"].v)}
       /\ "comparison_dimensions" \in DOMAIN outcome.value.v
       /\ outcome.value.v["comparison_dimensions"]
             = PyList(<<"performance", "architecture">>)

\* C11: whenever the bag extract_parameters returns holds the key limit,
\* its value is a positive integer, whether the bag came from the parameter
\* chain or from the rule-based extraction.
C11_LimitIsPositiveInteger ==
    (ExtractDone /\ pc = "returned" /\ outcome.value.t = "dict"
        /\ "limit" \in DOMAIN outcome.value.v)
        => /\ outcome.value.v["limit"].t = "int"
           /\ outcome.value.v["limit"].v > 0

(***************************************************************************)
(* SearchDispatcher._translate_filters_to_chroma                           *)
(*                                                                         *)
(* A filter mapping is a PyDict whose values are scalars, lists or         *)
(* PyDicts of operators.  Python iterates a dict in insertion order; the   *)
(* order of the operator keys is the argument `order`.                     *)
(***************************************************************************)
OperatorKeys ==
    {"$eq", "$ne", "$gt", "$gte", "$lt", "$lte", "$in", "$nin", "$contains"}

\* line 928: isinstance(value, dict) and any(op.startswith('$') ...)
IsOperatorDict(value) ==
    /\ value.t = "dict"
    /\ \E op \in DOMAIN value.v : op \in OperatorKeys \/ op = "$regex"

\* lines 926-935: the first loop, over the values that are no operator dict
DirectMappings(filters) ==
    [key \in {k \in DOMAIN filters : ~IsOperatorDict(filters[k])} |->
        IF filters[key].t = "list"
        THEN PyDict("$in" :> filters[key])
        ELSE PyDict("$eq" :> filters[key])]

\* lines 942-961: every recognized operator assigns chroma_filters[key]
\* anew, so the last one of the iteration stays; "" when there is none
LastOperator(operators, order) ==
    LET recognized == SelectSeq(order, LAMBDA op :
                          op \in DOMAIN operators /\ op \in OperatorKeys)
    IN  IF recognized = <<>> THEN "" ELSE recognized[Len(recognized)]

\* lines 938-961: the second loop, over the values that are dicts
OperatorMappings(filters, order) ==
    [key \in {k \in DOMAIN filters :
                 /\ filters[k].t = "dict"
                 /\ LastOperator(filters[k].v, order) # ""} |->
        PyDict(LastOperator(filters[key].v, order)
                 :> filters[key].v[LastOperator(filters[key].v, order)])]

\* lines 916-963; filters.items() of a value that is neither None, nor a
\* list, nor a dict raises AttributeError
_translate_filters_to_chroma(filters, order) ==
    IF filters.t \in {"none", "list"} THEN Returned(PyDict(EmptyDict))
    ELSE IF filters.t # "dict" THEN Raised("AttributeError")
    ELSE Returned(PyDict(Update(DirectMappings(filters.v),
                                OperatorMappings(filters.v, order))))

\* the orders in which the operator keys of a filter mapping can iterate
OperatorOrders(filters) ==
    IF filters.t # "dict" THEN {<<>>}
    ELSE Orders(UNION {DOMAIN filters.v[k].v :
                          k \in {j \in DOMAIN filters.v : filters.v[j].t = "dict"}})

(***************************************************************************)
(* handle_text_search, handle_image_search, handle_metadata_search: the    *)
(* request each handler sends to the vector database                       *)
(***************************************************************************)
PyFloat(x) == [t |-> "float", v |-> x]
Absent == [t |-> "absent"]

\* isinstance(limit, int): bool is a subclass of int
IsInstanceInt(x) == x.t \in {"int", "bool"}

\* limits a parameter bag can carry
LimitValues ==
    {None, PyStr("abc"), PyFloat("2.5"), PyBool(TRUE),
     PyInt(0), PyInt(0 - 3), PyInt(7)}

\* filters a parameter bag can carry
FilterValues ==
    {None, PyList(<<"owner">>), PyStr("owner"), PyInt(5),
     PyDict(EmptyDict),
     PyDict([framework |-> PyStr("jax")]),
     PyDict([framework |-> PyList(<<"jax", "pytorch">>)]),
     PyDict([params |-> PyDict("$gt" :> PyInt(1))]),
     PyDict([params |-> PyDict(("$gt" :> PyInt(1)) @@ ("$lt" :> PyInt(5)))]),
     PyDict([params |-> PyDict(("$gte" :> PyInt(1)) @@ ("value" :> PyInt(5)))]),
     PyDict([params |-> PyDict("$regex" :> PyStr("7b"))]),
     PyDict([params |-> PyDict("value" :> PyStr("7b"))]),
     PyDict(ExtractFilters(<<"params", ">", "7b", "created", "after", "2023">>)),
     PyDict([framework |-> PyDict("$in" :> PyList(<<"jax">>)),
             owner |-> PyDict("$eq" :> PyStr("team-b")),
             name |-> PyDict("$contains" :> PyStr("gpt"))])}

\* a dict of the fields that are present
MakeBag(fields) ==
    [k \in {j \in DOMAIN fields : fields[j].t # "absent"} |-> fields[k]]

SearchBags ==
    {MakeBag([limit |-> l, filters |-> f, style_tags |-> s, query_id |-> Absent]) :
        l \in LimitValues \cup {Absent},
        f \in FilterValues \cup {Absent},
        s \in {Absent, PyList(<<"anime">>)}}
    \cup {[style_tags |-> PyList(<<>>), prompt_terms |-> PyStr("a cat"),
           resolution |-> PyDict([width |-> PyInt(512), height |-> PyInt(512)]),
           model_ids |-> PyList(<<"gpt">>), limit |-> PyInt(7)],
          [image_data |-> PyStr("<bytes>"), prompt_terms |-> PyStr(""),
           resolution |-> None, model_ids |-> PyList(<<>>)]}

\* what the vector database does with a request
ChromaOutcomes ==
    {Returned(r) : r \in BackendResults} \cup {Raised("vector database failure")}

SearchHandlers == {"handle_text_search", "handle_image_search", "handle_metadata_search"}

SearchInit ==
    /\ pc \in SearchHandlers
    /\ intent = None
    /\ caller_intent = None
    /\ parameters \in SearchBags
    /\ caller_parameters = parameters
    /\ user_id = None
    /\ access_control_manager = None
    /\ analytics = None
    /\ results = Pending
    /\ chroma_manager \in ChromaOutcomes
    /\ tasks = <<>>
    /\ calls = <<>>
    /\ outcome = Pending
    /\ query_text = <<>>
    /\ use_langchain = FALSE
    /\ chain_reply = None
    /\ model_mentions = {}
    /\ doc = <<>>
    /\ param_reply = None
    /\ stack = <<>>
    /\ re_bound = FALSE

\* the handler's result dict for the records the database handed back
SearchResult(type, records) ==
    Returned([success |-> TRUE, type |-> type, items |-> records,
              total_found |-> Len(records)])

\* the request reaches the database, which answers or raises; the handler
\* wraps the records or re-raises
SendRequest(before, fn, request, type) ==
    /\ calls' = calls \o before \o <<Call(fn, request, chroma_manager)>>
    /\ outcome' = IF chroma_manager.t = "return"
                  THEN SearchResult(type, chroma_manager.value)
                  ELSE chroma_manager
    /\ pc' = IF chroma_manager.t = "return" THEN "returned" ELSE "raised"

\* the embedder raises; the handler logs and re-raises
EmbeddingFails(fn) ==
    /\ calls' = Append(calls, Call(fn, None, Raised("embedding failure")))
    /\ outcome' = Raised("embedding failure")
    /\ pc' = "raised"

\* lines 249-266 of handle_image_search: the filters built from the bag
ImageFilters(p) ==
    LET style_tags == Get(p, "style_tags", PyList(<<>>))
        prompt_terms == Get(p, "prompt_terms", PyStr(""))
        resolution == Get(p, "resolution", None)
        model_ids == Get(p, "model_ids", PyList(<<>>))
        filters ==
            MakeBag(("style_tags" :> IF Truthy(style_tags)
                                     THEN PyDict("$in" :> style_tags) ELSE Absent)
                 @@ ("prompt" :> IF Truthy(prompt_terms)
                                 THEN PyDict("$contains" :> prompt_terms) ELSE Absent)
                 @@ ("resolution.width" :> IF Truthy(resolution)
                        THEN PyDict("$eq" :> Get(resolution.v, "width", None))
                        ELSE Absent)
                 @@ ("resolution.height" :> IF Truthy(resolution)
                        THEN PyDict("$eq" :> Get(resolution.v, "height", None))
                        ELSE Absent)
                 @@ ("source_model_id" :> IF Truthy(model_ids)
                        THEN PyDict("$in" :> model_ids) ELSE Absent))
    IN  IF DOMAIN filters = {} THEN None ELSE PyDict(filters)

\* handle_text_search, lines 145-208: the embedding, the limit check of
\* lines 152-155, the translated filters, the search
text_search ==
    /\ pc = "handle_text_search"
    /\ \/ EmbeddingFails("embed_text")
       \/ LET limit == Get(parameters, "limit", PyInt(10))
              filters == Get(parameters, "filters", PyDict(EmptyDict))
          IN  \E order \in OperatorOrders(filters) :
                LET where == _translate_filters_to_chroma(filters, order)
                    translated == Call("_translate_filters_to_chroma", filters, where)
                IN  IF where.t = "raise"
                    THEN /\ calls' = Append(calls, translated)
                         /\ outcome' = where
                         /\ pc' = "raised"
                    ELSE SendRequest(<<translated>>, "chroma_manager.search",
                            [limit |-> IF limit.t = "none" \/ ~IsInstanceInt(limit)
                                       THEN PyInt(10) ELSE limit,
                             where |-> where.value,
                             collection_name |-> "model_scripts"],
                            "text_search")
    /\ UNCHANGED <<intent, dispatch_only, parser_only, handler_only>>

\* handle_image_search, lines 224-320: the embedding of the image or of the
\* text, the limit of line 241 as the bag carries it, the filters, the search
image_search ==
    /\ pc = "handle_image_search"
    /\ \/ EmbeddingFails(IF "image_data" \in DOMAIN parameters
                         THEN "generate_embedding" ELSE "generate_text_embedding")
       \/ SendRequest(<<>>, "chroma_manager.search",
             [limit |-> Get(parameters, "limit", PyInt(20)),
              where |-> ImageFilters(parameters),
              collection_name |-> "generated_images"],
             "image_search")
    /\ UNCHANGED <<intent, dispatch_only, parser_only, handler_only>>

\* handle_metadata_search, lines 474-514: the limit of line 477 as the bag
\* carries it, the translated filters, the get
metadata_search ==
    /\ pc = "handle_metadata_search"
    /\ LET filters == Get(parameters, "filters", PyDict(EmptyDict))
       IN  \E order \in OperatorOrders(filters) :
             LET where == _translate_filters_to_chroma(filters, order)
                 translated == Call("_translate_filters_to_chroma", filters, where)
             IN  IF where.t = "raise"
                 THEN /\ calls' = Append(calls, translated)
                      /\ outcome' = where
                      /\ pc' = "raised"
                 ELSE SendRequest(<<translated>>, "chroma_manager.get",
                         [limit |-> Get(parameters, "limit", PyInt(20)),
                          where |-> where.value,
                          collection_name |-> "model_scripts"],
                         "metadata_search")
    /\ UNCHANGED <<intent, dispatch_only, parser_only, handler_only>>

SearchNext ==
    \/ text_search
    \/ image_search
    \/ metadata_search

SpecSearch == SearchInit /\ [][SearchNext]_vars

(***************************************************************************)
(* Properties of the search handlers and of the filter translation         *)
(***************************************************************************)
\* the requests sent to the vector database, and the translations made
Requests == SelectSeq(calls, LAMBDA c :
                c.fn \in {"chroma_manager.search", "chroma_manager.get"})
Translations == SelectSeq(calls, LAMBDA c : c.fn = "_translate_filters_to_chroma")

\* the limit the handler that ran falls back to
C12_Default(fn, request) ==
    IF fn = "chroma_manager.search" /\ request.collection_name = "model_scripts"
    THEN PyInt(10) ELSE PyInt(20)

\* C12: the limit a search handler sends to the vector database is a
\* positive integer; with no limit in the parameters, or one that is not an
\* integer, TextSearch sends 10 and ImageSearch and MetadataSearch send 20.
C12_SentLimitPositive ==
    \A i \in 1..Len(Requests) :
        LET sent == Requests[i].arg.limit
        IN  /\ sent.t = "int" /\ sent.v > 0
            /\ ("limit" \notin DOMAIN parameters \/ parameters["limit"].t # "int")
                  => sent = C12_Default(Requests[i].fn, Requests[i].arg)

\* C13: the filter translation raises for no input, and for None or an
\* input that is no mapping it returns the empty filter.
C13_TranslationTotal ==
    \A i \in 1..Len(Translations) :
        /\ Translations[i].ret.t = "return"
        /\ Translations[i].arg.t # "dict"
              => Translations[i].ret = Returned(PyDict(EmptyDict))

\* a filter mapping in translated form: every value is a mapping with at
\* least one key, all of them recognized operators
C14_Translated(filters) ==
    /\ filters.t = "dict"
    /\ \A key \in DOMAIN filters.v :
          /\ filters.v[key].t = "dict"
          /\ DOMAIN filters.v[key].v # {}
          /\ DOMAIN filters.v[key].v \subseteq OperatorKeys

\* C14: the translation of a filter mapping in translated form, also one
\* with several operators on a field, is equal to the mapping.
C14_TranslationIdempotent ==
    \A i \in 1..Len(Translations) :
        C14_Translated(Translations[i].arg)
            => Translations[i].ret = Returned(Translations[i].arg)

\* a filter as the rule-based extraction stores a comparison
C30_Structured(value) ==
    /\ value.t = "dict"
    /\ {"operator", "value"} \subseteq DOMAIN value.v

\* the operator key of the vector database for an operator of the query
C30_OperatorKey ==
    (">" :> "$gt") @@ ("<" :> "$lt") @@ ("=" :> "$eq")
    @@ ("after" :> "$gt") @@ ("before" :> "$lt") @@ ("since" :> "$gte")

\* C30: a parameter-count or date filter stored as {operator, value}
\* reaches the vector database, after the translation in TextSearch or
\* MetadataSearch, as that comparison operator applied to that value: not
\* as an equality with the record and not dropped.
C30_StructuredFilterReachesDatabase ==
    \A i \in 1..Len(Requests) :
        (/\ Requests[i].arg.collection_name = "model_scripts"
         /\ "filters" \in DOMAIN parameters
         /\ parameters["filters"].t = "dict")
        => \A key \in DOMAIN parameters["filters"].v :
              LET stored == parameters["filters"].v[key]
                  where == Requests[i].arg.where
              IN  (C30_Structured(stored)
                     /\ stored.v.operator.v \in DOMAIN C30_OperatorKey)
                  => /\ key \in DOMAIN where.v
                     /\ where.v[key]
                          = PyDict(C30_OperatorKey[stored.v.operator.v]
                                      :> stored.v.value)

(***************************************************************************)
(* handle_comparison: the records of the store and _fetch_model_data       *)
(*                                                                         *)
(* A metadata record of the store holds, per section, the values found     *)
(* under ['value']; a section that is missing is Absent, a value that is   *)
(* missing is None.  Numbers are integers.                                 *)
(***************************************************************************)
Architecture(type, hidden_size, num_layers, num_attention_heads, total_parameters) ==
    PyDict([type |-> PyStr(type), hidden_size |-> hidden_size,
            num_layers |-> num_layers,
            num_attention_heads |-> num_attention_heads,
            total_parameters |-> total_parameters])

Performance(accuracy, loss, perplexity) ==
    PyDict([accuracy |-> accuracy, loss |-> loss, perplexity |-> perplexity,
            eval_dataset |-> None])

\* metadata of the first document the store returns for a model
StoreMetadata ==
    {[architecture |-> Architecture("transformer", PyInt(8), PyInt(2), PyInt(2), PyInt(4)),
      performance |-> Performance(PyInt(2), PyInt(0 - 1), None)],
     [architecture |-> Architecture("cnn", PyInt(4), PyInt(0), PyInt(1), PyInt(2)),
      performance |-> Performance(PyInt(1), PyInt(0 - 2), PyInt(0))],
     [architecture |-> Architecture("cnn", PyInt(4), PyInt(1), PyInt(1), PyInt(2)),
      performance |-> Absent],
     [architecture |-> Architecture("rnn", None, None, None, None),
      performance |-> Performance(None, PyInt(3), PyInt(3))],
     [architecture |-> Absent,
      performance |-> Performance(PyInt(0), PyInt(2), PyInt(5))],
     [architecture |-> Architecture("transformer", PyInt(8), None, PyInt(2), PyInt(4)),
      performance |-> Performance(PyInt(1), None, None)]}

\* the stub of line 591
NotFound(model_id) == [model_id |-> PyStr(model_id), found |-> PyBool(FALSE)]

\* lines 596-646: the dimensions asked for and present in the metadata, and
\* the basic block
ModelData(model_id, dimensions, metadata) ==
    LET asked(d) == \E n \in 1..Len(dimensions) : dimensions[n] = d
    IN  MakeBag([model_id |-> PyStr(model_id), found |-> PyBool(TRUE),
                 architecture |-> IF asked("architecture") THEN metadata.architecture
                                  ELSE Absent,
                 performance |-> IF asked("performance") THEN metadata.performance
                                 ELSE Absent,
                 basic |-> PyDict([version |-> None, creation_date |-> None,
                                   last_modified_date |-> None,
                                   predecessor_models |-> PyList(<<>>)])])

\* lines 583-648: what a fetch hands back for the answer of the store
_fetch_model_data(model_id, dimensions, response) ==
    IF response.t = "raise" THEN response
    ELSE IF response.value = <<>> THEN Returned(NotFound(model_id))
    ELSE Returned(ModelData(model_id, dimensions, response.value[1]))

(***************************************************************************)
(* _generate_performance_comparisons                                       *)
(***************************************************************************)
\* list.sort(key=...): stable, ascending by key; with reverse=True
\* descending, equal keys staying in their order
RECURSIVE Sorted(_, _, _)
Sorted(items, key, reverse) ==
    IF Len(items) <= 1 THEN items
    ELSE LET front == Sorted(SubSeq(items, 1, Len(items) - 1), key, reverse)
             last == items[Len(items)]
             Before(x) == IF reverse THEN x[key].v >= last[key].v
                          ELSE x[key].v <= last[key].v
             n == Cardinality({i \in 1..Len(front) :
                                  \A j \in 1..i : Before(front[j])})
         IN  SubSeq(front, 1, n) \o <<last>> \o SubSeq(front, n + 1, Len(front))

\* the models the summary of a dimension takes: found, with the dimension
WithDimension(model_data_list, dimension) ==
    SelectSeq(model_data_list, LAMBDA m : m["found"].v /\ dimension \in DOMAIN m)

NotEnough(dimension) ==
    [error |-> "Not enough models with " \o dimension \o " data for comparison"]

\* the rankings left in the order of model_ids
MetricRanking_Unsorted(models_with_perf, metric, reverse) ==
    LET having == SelectSeq(models_with_perf, LAMBDA m :
                      m["performance"].v[metric].t # "none")
        ranking == [i \in 1..Len(having) |->
                      [model_id |-> having[i]["model_id"].v,
                       value |-> having[i]["performance"].v[metric]]]
    IN  IF Len(having) = 0 THEN EmptyDict
        ELSE [best |-> ranking[1], ranking |-> ranking]

\* lines 677-713: best and ranking of one metric, {} when no model has it
MetricRanking(models_with_perf, metric, reverse) ==
    LET having == SelectSeq(models_with_perf, LAMBDA m :
                      m["performance"].v[metric].t # "none")
        pairs == [i \in 1..Len(having) |->
                    [model_id |-> having[i]["model_id"].v,
                     value |-> having[i]["performance"].v[metric]]]
        ranking == Sorted(pairs, "value", reverse)
    IN  IF Len(having) = 0 THEN EmptyDict
        ELSE [best |-> ranking[1], ranking |-> ranking]

\* lines 731-758: the entry of one metric for the pair (model1, model2);
\* the percentage (v1 - v2) / v2 * 100.0 is kept as numerator and divisor
Improvement(model1, model2, metric) ==
    LET v1 == model1["performance"].v[metric]
        v2 == model2["performance"].v[metric]
    IN  IF v1.t # "none" /\ v2.t # "none" /\ v2.v > 0
        THEN PyDict([absolute |-> v1.v - v2.v,
                     percentage |-> <<(v1.v - v2.v) * 100, v2.v>>,
                     better |-> IF metric = "accuracy" THEN v1.v > v2.v
                                ELSE v1.v < v2.v])
        ELSE Absent

\* line 727 and line 821: f"{id1}_vs_{id2}"
PairKey(id1, id2) == id1 \o "_vs_" \o id2

\* for i in range(n): for j in range(n): if i == j: continue
LoopPairs(n) ==
    SelectSeq([k \in 1..(n * n) |-> <<((k - 1) \div n) + 1, ((k - 1) % n) + 1>>],
              LAMBDA p : p[1] # p[2])

\* the dict a sequence of assignments d[key] = value leaves behind
DictOf(assignments) ==
    [key \in {assignments[i][1] : i \in 1..Len(assignments)} |->
        assignments[Max({i \in 1..Len(assignments) : assignments[i][1] = key})][2]]

\* lines 716-762
RelativeImprovements(models_with_perf) ==
    LET pairs == LoopPairs(Len(models_with_perf))
    IN  DictOf([k \in 1..Len(pairs) |->
            LET model1 == models_with_perf[pairs[k][1]]
                model2 == models_with_perf[pairs[k][2]]
            IN  <<PairKey(model1["model_id"].v, model2["model_id"].v),
                  MakeBag([accuracy |-> Improvement(model1, model2, "accuracy"),
                           loss |-> Improvement(model1, model2, "loss"),
                           perplexity |-> Improvement(model1, model2, "perplexity")])>>])

\* lines 660-764
_generate_performance_comparisons(model_data_list) ==
    LET models_with_perf == WithDimension(model_data_list, "performance")
    IN  IF Len(models_with_perf) < 2 THEN NotEnough("performance")
        ELSE [accuracy |-> MetricRanking(models_with_perf, "accuracy", TRUE),
              loss |-> MetricRanking(models_with_perf, "loss", FALSE),
              perplexity |-> MetricRanking(models_with_perf, "perplexity", FALSE),
              relative_improvement |-> RelativeImprovements(models_with_perf)]

(***************************************************************************)
(* _generate_architecture_comparisons                                      *)
(*                                                                         *)
(* Ordering None against a number, or against None, raises TypeError: in   *)
(* list.sort (line 807) and in the `> 0` tests of lines 844-869.           *)
(***************************************************************************)
\* lines 792-799: architecture type -> the ids of the models that have it
ArchitectureTypes(models_with_arch) ==
    LET TypeOf(m) == m["architecture"].v.type.v
    IN  [type \in {TypeOf(models_with_arch[i]) : i \in 1..Len(models_with_arch)} |->
            LET same == SelectSeq(models_with_arch, LAMBDA m : TypeOf(m) = type)
            IN  [i \in 1..Len(same) |-> same[i]["model_id"].v]]

\* a list of {model_id, <field>} entries, sorted by the field, descending
Ranking(ids, values, field) ==
    Sorted([i \in 1..Len(ids) |-> ("model_id" :> ids[i]) @@ (field :> values[i])],
           field, TRUE)

\* lines 802-824: the ranking by total_parameters and the ratios
\* params1 / params2, kept as numerator and divisor
ModelSize(models_with_arch) ==
    LET ranking == Ranking(
            [i \in 1..Len(models_with_arch) |-> models_with_arch[i]["model_id"].v],
            [i \in 1..Len(models_with_arch) |->
                models_with_arch[i]["architecture"].v.total_parameters],
            "parameters")
        pairs == SelectSeq(LoopPairs(Len(ranking)),
                           LAMBDA p : ranking[p[2]].parameters.v # 0)
    IN  [largest |-> ranking[1], smallest |-> ranking[Len(ranking)],
         ranking |-> ranking,
         relative_sizes |->
            DictOf([k \in 1..Len(pairs) |->
                <<PairKey(ranking[pairs[k][1]].model_id, ranking[pairs[k][2]].model_id),
                  IF ranking[pairs[k][2]].parameters.v > 0
                  THEN <<ranking[pairs[k][1]].parameters.v,
                         ranking[pairs[k][2]].parameters.v>>
                  ELSE <<1, 0>>>>])]

\* complexity_metrics is keyed by model id: one entry per id, in the order
\* of first appearance
DistinctModels(models) ==
    LET firsts == SelectSeq([i \in 1..Len(models) |-> i], LAMBDA i :
                      \A j \in 1..(i - 1) : models[j]["model_id"] # models[i]["model_id"])
    IN  [k \in 1..Len(firsts) |-> models[firsts[k]]]

\* all(value > 0 for ...): stops at the first value that is not positive;
\* a None met before that raises TypeError
AllPositive(values) ==
    LET stops == {i \in 1..Len(values) :
                     values[i].t = "none" \/ values[i].v <= 0}
    IN  IF stops = {} THEN "True"
        ELSE IF values[Min(stops)].t = "none" THEN "TypeError" ELSE "False"

\* the values of one architecture field, per distinct model
FieldValues(models_with_arch, field) ==
    [i \in 1..Len(DistinctModels(models_with_arch)) |->
        DistinctModels(models_with_arch)[i]["architecture"].v[field]]

\* lines 843-879: most, least and ranking of one field ('largest' and
\* 'smallest' for hidden_size), when every model has a positive value
ComplexityComparisons(models_with_arch) ==
    LET ids == [i \in 1..Len(DistinctModels(models_with_arch)) |->
                   DistinctModels(models_with_arch)[i]["model_id"].v]
        Entry(field, most, least) ==
            LET ranking == Ranking(ids, FieldValues(models_with_arch, field), "value")
            IN  (most :> ranking[1]) @@ (least :> ranking[Len(ranking)])
                @@ ("ranking" :> ranking)
    IN  [k \in {j \in {"layers", "attention_heads", "hidden_size"} :
                   AllPositive(FieldValues(models_with_arch,
                       CASE j = "layers" -> "num_layers"
                         [] j = "attention_heads" -> "num_attention_heads"
                         [] j = "hidden_size" -> "hidden_size")) = "True"} |->
            CASE k = "layers" -> Entry("num_layers", "most", "least")
              [] k = "attention_heads" -> Entry("num_attention_heads", "most", "least")
              [] k = "hidden_size" -> Entry("hidden_size", "largest", "smallest")]

\* lines 881-901: accuracy per million parameters, kept as accuracy and
\* parameter count, for the models that have an accuracy
Efficiency(models_with_arch) ==
    LET having == SelectSeq(models_with_arch, LAMBDA m :
                    /\ "performance" \in DOMAIN m
                    /\ m["performance"].v.accuracy.t # "none"
                    /\ m["architecture"].v.total_parameters.v > 0)
    IN  DictOf([i \in 1..Len(having) |->
            <<having[i]["model_id"].v,
              [accuracy_per_million_params |->
                  <<having[i]["performance"].v.accuracy.v,
                    having[i]["architecture"].v.total_parameters.v>>]>>])

\* lines 776-903
_generate_architecture_comparisons(model_data_list) ==
    LET models_with_arch == WithDimension(model_data_list, "architecture")
        Values(field) == FieldValues(models_with_arch, field)
        total_parameters == [i \in 1..Len(models_with_arch) |->
                                models_with_arch[i]["architecture"].v.total_parameters]
        comparisons ==
            [architecture_types |-> ArchitectureTypes(models_with_arch),
             model_size |-> ModelSize(models_with_arch),
             complexity |->
                [metrics |-> DictOf([i \in 1..Len(models_with_arch) |->
                    <<models_with_arch[i]["model_id"].v,
                      [layers |-> models_with_arch[i]["architecture"].v.num_layers,
                       attention_heads |->
                           models_with_arch[i]["architecture"].v.num_attention_heads,
                       hidden_size |->
                           models_with_arch[i]["architecture"].v.hidden_size]>>]),
                 comparisons |-> ComplexityComparisons(models_with_arch)]]
    IN  IF Len(models_with_arch) < 2 THEN Returned(NotEnough("architecture"))
        ELSE IF \E i \in 1..Len(total_parameters) : total_parameters[i].t = "none"
        THEN Raised("TypeError")
        ELSE IF \E field \in {"num_layers", "num_attention_heads", "hidden_size"} :
                    AllPositive(Values(field)) = "TypeError"
        THEN Raised("TypeError")
        ELSE IF AllPositive(total_parameters) = "True"
                /\ DOMAIN Efficiency(models_with_arch) # {}
        THEN Returned([efficiency |-> Efficiency(models_with_arch)] @@ comparisons)
        ELSE Returned(comparisons)

(***************************************************************************)
(* handle_comparison                                                       *)
(***************************************************************************)
\* a list as the set of its elements
Elements(list) == {list[i] : i \in 1..Len(list)}

\* lines 352-393: the result built from what the fetches handed back, in
\* the order of model_ids; a TypeError of the architecture summary leaves
\* the handler
ComparisonResults(model_ids, dimensions, model_data_list) ==
    LET models == DictOf([i \in 1..Len(model_data_list) |->
                    <<model_data_list[i]["model_id"].v, model_data_list[i]>>])
        by_model_id == [i \in 1..Len(model_ids) |-> models[model_ids[i]]]
        architecture == _generate_architecture_comparisons(by_model_id)
        summary ==
            MakeBag([performance |->
                        IF "performance" \in Elements(dimensions)
                        THEN PyDict(_generate_performance_comparisons(by_model_id))
                        ELSE Absent,
                     architecture |->
                        IF "architecture" \in Elements(dimensions)
                        THEN PyDict(architecture.value)
                        ELSE Absent])
    IN  IF "architecture" \in Elements(dimensions) /\ architecture.t = "raise"
        THEN architecture
        ELSE Returned(
               [success |-> TRUE, type |-> "comparison",
                models |-> PyList(model_ids), dimensions |-> dimensions,
                results |->
                   [models |-> models,
                    dimensions |->
                       [d \in Elements(dimensions) |->
                           [id \in DOMAIN models |->
                               Get(models[id], d, PyDict(EmptyDict))]],
                    summary |-> summary]])

MaxModelIds == 3
ModelIds == {"gpt", "bert"}

\* what the store does when asked for a model: no record, the record of
\* the model, or an exception (connection lost, timeout)
StoreOutcomes ==
    {Returned(<<>>), Raised("store failure")}
    \cup {Returned(<<metadata>>) : metadata \in StoreMetadata}

\* the bags handle_comparison is called with
ComparisonBags ==
    {MakeBag([model_ids |-> PyList(model_ids), comparison_dimensions |-> dimensions]) :
        model_ids \in Texts(ModelIds, MaxModelIds),
        dimensions \in {Absent, PyList(<<"performance">>),
                        PyList(<<"architecture", "performance", "training">>)}}
    \cup {EmptyDict}

ComparisonInit ==
    /\ pc = "handle_comparison"
    /\ intent = None
    /\ caller_intent = None
    /\ parameters \in ComparisonBags
    /\ caller_parameters = parameters
    /\ user_id = None
    /\ access_control_manager = None
    /\ analytics = None
    /\ results = Pending
    /\ chroma_manager \in [ModelIds -> StoreOutcomes]
    /\ tasks = <<>>
    /\ calls = <<>>
    /\ outcome = Pending
    /\ query_text = <<>>
    /\ use_langchain = FALSE
    /\ chain_reply = None
    /\ model_mentions = {}
    /\ doc = <<>>
    /\ param_reply = None
    /\ stack = <<>>
    /\ re_bound = FALSE

\* line 343
Dimensions ==
    Get(parameters, "comparison_dimensions",
        PyList(<<"architecture", "performance">>)).v

\* a coroutine handed to asyncio.gather: not yet run, waiting for the
\* store, or finished with a result or an exception
Task(model_id, state, result) ==
    [model_id |-> model_id, state |-> state, result |-> result]

\* lines 338-350: the check of model_ids, then one task per entry of
\* model_ids and the await of asyncio.gather
comparison_create_tasks ==
    /\ pc = "handle_comparison"
    /\ LET model_ids == Get(parameters, "model_ids", PyList(<<>>))
       IN  IF ~Truthy(model_ids) \/ Len(model_ids.v) < 2
           THEN /\ outcome' = Raised("Comparison requires at least two model IDs")
                /\ pc' = "raised"
                /\ tasks' = tasks
           ELSE /\ tasks' = [i \in 1..Len(model_ids.v) |->
                                Task(model_ids.v[i], "scheduled", Pending)]
                /\ pc' = "gather"
                /\ outcome' = outcome
    /\ UNCHANGED <<intent, calls, dispatch_only, parser_only, chroma_manager>>

\* lines 580-587: the event loop runs the tasks in the order they were
\* created; each runs up to its await of chroma_manager.get
fetch_model_data_request ==
    /\ \E i \in 1..Len(tasks) :
          /\ tasks[i].state = "scheduled"
          /\ \A j \in 1..(i - 1) : tasks[j].state # "scheduled"
          /\ tasks' = [tasks EXCEPT ![i].state = "awaiting"]
          /\ calls' = Append(calls, Call("chroma_manager.get", tasks[i].model_id, Pending))
    /\ UNCHANGED <<pc, intent, outcome, dispatch_only, parser_only, chroma_manager>>

\* lines 583-648: the store answers one of the waiting tasks, in any
\* order, also after the handler has left the gather with an exception:
\* asyncio.gather does not cancel the other tasks
fetch_model_data_response ==
    /\ \E i \in 1..Len(tasks) :
          /\ tasks[i].state = "awaiting"
          /\ LET result == _fetch_model_data(tasks[i].model_id, Dimensions,
                                             chroma_manager[tasks[i].model_id])
             IN  tasks' = [tasks EXCEPT ![i] =
                              Task(tasks[i].model_id,
                                   IF result.t = "raise" THEN "failed" ELSE "done",
                                   result)]
    /\ UNCHANGED <<pc, intent, calls, outcome, dispatch_only, parser_only,
                   chroma_manager>>

\* line 350: gather without return_exceptions hands the first exception of
\* a task to the awaiting handler, which logs and re-raises (lines 395-397)
comparison_gather_raises ==
    /\ pc = "gather"
    /\ \A i \in 1..Len(tasks) : tasks[i].state # "scheduled"
    /\ \E i \in 1..Len(tasks) :
          /\ tasks[i].state = "failed"
          /\ outcome' = tasks[i].result
    /\ pc' = "raised"
    /\ UNCHANGED <<intent, calls, dispatch_only, parser_only, handler_only>>

\* lines 350-393: every task has a result; the handler builds the
\* comparison and returns it, or an exception of a summary leaves it
comparison_build_results ==
    /\ pc = "gather"
    /\ \A i \in 1..Len(tasks) : tasks[i].state = "done"
    /\ outcome' = ComparisonResults([i \in 1..Len(tasks) |-> tasks[i].model_id],
                                    Dimensions,
                                    [i \in 1..Len(tasks) |-> tasks[i].result.value])
    /\ pc' = IF outcome'.t = "return" THEN "returned" ELSE "raised"
    /\ UNCHANGED <<intent, calls, dispatch_only, parser_only, handler_only>>

ComparisonNext ==
    \/ comparison_create_tasks
    \/ fetch_model_data_request
    \/ fetch_model_data_response
    \/ comparison_gather_raises
    \/ comparison_build_results

SpecComparison == ComparisonInit /\ [][ComparisonNext]_vars

(***************************************************************************)
(* Properties of handle_comparison, checked under SpecComparison           *)
(***************************************************************************)
ComparisonDone == pc \in {"returned", "raised"}

RequestedIds == Get(parameters, "model_ids", PyList(<<>>)).v

\* the comparison came back as a successful response
ComparisonSucceeded ==
    /\ pc = "returned"
    /\ outcome.t = "return"
    /\ outcome.value.success

\* what the fetch of a model hands back when the store answers
Fetched(model_id) ==
    _fetch_model_data(model_id, Dimensions, chroma_manager[model_id])

\* C15: a request whose model_ids hold fewer than two distinct identifiers,
\* a list that repeats one identifier included, is rejected with the error
\* "Comparison requires at least two model IDs".
C15_FewerThanTwoDistinctRejected ==
    (ComparisonDone /\ Cardinality(Elements(RequestedIds)) < 2)
        => outcome = Raised("Comparison requires at least two model IDs")

\* C16: a requested model the store has no record of appears in the results
\* as the stub {model_id, found: false}; the comparison returns success and
\* the entries of the other models are what their own fetches produced.
C16_MissingModelIsStub ==
    \A missing \in Elements(RequestedIds) :
        (ComparisonDone /\ Len(RequestedIds) >= 2
            /\ chroma_manager[missing] = Returned(<<>>))
        => /\ ComparisonSucceeded
           /\ outcome.value.results.models[missing] = NotFound(missing)
           /\ \A other \in Elements(RequestedIds) :
                 Fetched(other).t = "return"
                 => outcome.value.results.models[other] = Fetched(other).value

\* C17: when the store call of one model raises, the comparison still
\* returns, with the results of the other models as their fetches produced
\* them and an entry for the failed model.
C17_FailedFetchKeepsSiblings ==
    \A failed \in Elements(RequestedIds) :
        (ComparisonDone /\ Len(RequestedIds) >= 2
            /\ chroma_manager[failed].t = "raise")
        => /\ ComparisonSucceeded
           /\ failed \in DOMAIN outcome.value.results.models
           /\ \A other \in Elements(RequestedIds) :
                 Fetched(other).t = "return"
                 => outcome.value.results.models[other] = Fetched(other).value

\* C18: every fetch is issued before any result is awaited on, and the
\* handler is past the join (building results, returning or raising) only
\* when every fetch has completed or failed.
C18_JoinWaitsForEveryFetch ==
    (ComparisonDone /\ tasks # <<>>)
        => \A i \in 1..Len(tasks) : tasks[i].state \in {"done", "failed"}

\* C19: two found models, one of them without performance data: the
\* performance summary is the marker "Not enough models ...", nothing is
\* raised, and the architecture summary, when both models have architecture
\* data, is produced in the same successful response.
C19_PerformanceMarkerArchitectureKept ==
    (/\ ComparisonDone
     /\ Len(RequestedIds) = 2
     /\ RequestedIds[1] # RequestedIds[2]
     /\ "performance" \in Elements(Dimensions)
     /\ \A i \in 1..2 : /\ chroma_manager[RequestedIds[i]].t = "return"
                        /\ chroma_manager[RequestedIds[i]].value # <<>>
     /\ \E i \in 1..2 :
           /\ chroma_manager[RequestedIds[i]].value[1].performance.t = "absent"
           /\ chroma_manager[RequestedIds[3 - i]].value[1].performance.t # "absent")
    => /\ ComparisonSucceeded
       /\ outcome.value.results.summary["performance"].v = NotEnough("performance")
       /\ ("architecture" \in Elements(Dimensions)
            /\ \A i \in 1..2 :
                  chroma_manager[RequestedIds[i]].value[1].architecture.t # "absent")
          => /\ "architecture" \in DOMAIN outcome.value.results.summary
             /\ "error" \notin DOMAIN outcome.value.results.summary["architecture"].v

\* C20: relative_improvement holds, for every ordered pair (i, j) of
\* distinct models and every metric both have a value of, j's being
\* nonzero, an entry with absolute = value_i - value_j and better =
\* (value_i > value_j) for accuracy, (value_i < value_j) for loss and
\* perplexity.
C20_RelativeImprovementComplete ==
    (/\ ComparisonSucceeded
     /\ "performance" \in Elements(Dimensions)
     /\ "relative_improvement" \in DOMAIN outcome.value.results.summary["performance"].v)
    => LET models == outcome.value.results.models
           relative == outcome.value.results.summary["performance"].v.relative_improvement
           HasValue(id, metric) ==
               /\ models[id]["found"].v
               /\ "performance" \in DOMAIN models[id]
               /\ models[id]["performance"].v[metric].t # "none"
           ValueOf(id, metric) == models[id]["performance"].v[metric].v
       IN  \A i \in DOMAIN models, j \in DOMAIN models :
           \A metric \in {"accuracy", "loss", "perplexity"} :
               (i # j /\ HasValue(i, metric) /\ HasValue(j, metric)
                  /\ ValueOf(j, metric) # 0)
               => /\ PairKey(i, j) \in DOMAIN relative
                  /\ metric \in DOMAIN relative[PairKey(i, j)]
                  /\ relative[PairKey(i, j)][metric].v.absolute
                        = ValueOf(i, metric) - ValueOf(j, metric)
                  /\ relative[PairKey(i, j)][metric].v.better
                        = IF metric = "accuracy"
                          THEN ValueOf(i, metric) > ValueOf(j, metric)
                          ELSE ValueOf(i, metric) < ValueOf(j, metric)

\* the performance summary of a successful comparison
PerformanceSummary == outcome.value.results.summary["performance"].v

PerformanceCompared ==
    /\ ComparisonSucceeded
    /\ "performance" \in Elements(Dimensions)
    /\ "error" \notin DOMAIN PerformanceSummary

\* the positions of model_ids whose model has a value of the metric
HavingMetric(metric) ==
    LET models == outcome.value.results.models
    IN  {i \in 1..Len(RequestedIds) :
            /\ "performance" \in DOMAIN models[RequestedIds[i]]
            /\ models[RequestedIds[i]]["performance"].v[metric].t # "none"}

\* the ranking is in order, holds the compared models that have the value,
\* each with its value, and best is its first entry
RankingOf(metric, descending) ==
    LET models == outcome.value.results.models
        section == PerformanceSummary[metric]
        having == HavingMetric(metric)
    IN  IF having = {} THEN section = EmptyDict
        ELSE /\ DOMAIN section = {"best", "ranking"}
             /\ Len(section.ranking) = Cardinality(having)
             /\ \A id \in Elements(RequestedIds) :
                   Cardinality({k \in 1..Len(section.ranking) :
                                   section.ranking[k].model_id = id})
                     = Cardinality({i \in having : RequestedIds[i] = id})
             /\ \A k \in 1..Len(section.ranking) :
                   section.ranking[k].value
                     = models[section.ranking[k].model_id]["performance"].v[metric]
             /\ \A k \in 1..(Len(section.ranking) - 1) :
                   IF descending
                   THEN section.ranking[k].value.v >= section.ranking[k + 1].value.v
                   ELSE section.ranking[k].value.v <= section.ranking[k + 1].value.v
             /\ section.best = section.ranking[1]
             /\ \A i \in having :
                   LET v == models[RequestedIds[i]]["performance"].v[metric].v
                   IN  IF descending THEN section.best.value.v >= v
                       ELSE section.best.value.v <= v

\* C21: the accuracy ranking lists exactly the models that have an accuracy,
\* in non-increasing order, and best is the model with the highest
\* accuracy; the loss and perplexity rankings list exactly the models that
\* have the value, in non-decreasing order, and best has the lowest value.
C21_RankingsOrdered ==
    PerformanceCompared
        => /\ RankingOf("accuracy", TRUE)
           /\ RankingOf("loss", FALSE)
           /\ RankingOf("perplexity", FALSE)

\* C21 happens: a comparison whose accuracy ranking puts the second model
\* of model_ids first and whose loss ranking has two entries
C21_Witness ==
    /\ PerformanceCompared
    /\ HavingMetric("accuracy") = {1, 2}
    /\ PerformanceSummary["accuracy"].ranking[1].model_id = RequestedIds[2]
    /\ PerformanceSummary["accuracy"].ranking[1].value.v
          > PerformanceSummary["accuracy"].ranking[2].value.v
    /\ Len(PerformanceSummary["loss"].ranking) = 2

\* the models the architecture summary compares: requested, found, with
\* architecture data, one per distinct id
ComparedArchitectures ==
    {id \in Elements(RequestedIds) :
        /\ Fetched(id).t = "return"
        /\ "architecture" \in DOMAIN Fetched(id).value}

\* the architecture summary is asked for and has at least two models to
\* compare, every fetch having returned
ArchitectureCompared ==
    /\ ComparisonDone
    /\ Len(RequestedIds) >= 2
    /\ "architecture" \in Elements(Dimensions)
    /\ \A id \in Elements(RequestedIds) : Fetched(id).t = "return"
    /\ Cardinality({i \in 1..Len(RequestedIds) :
                       RequestedIds[i] \in ComparedArchitectures}) >= 2

ArchitectureSummary == outcome.value.results.summary["architecture"].v

\* every compared model has a positive value of the architecture field
EveryPositive(field) ==
    \A id \in ComparedArchitectures :
        /\ Fetched(id).value["architecture"].v[field].t = "int"
        /\ Fetched(id).value["architecture"].v[field].v > 0

\* C22: the ranking by layer count (attention-head count, hidden size) is
\* made only when every compared model has a positive value of it; when a
\* model has no value or a non-positive one, that ranking alone is omitted,
\* nothing is raised and the rest of the architecture summary is produced.
C22_SubComparisonOmitted ==
    ArchitectureCompared
        => /\ ComparisonSucceeded
           /\ {"architecture_types", "model_size", "complexity"}
                 \subseteq DOMAIN ArchitectureSummary
           /\ ("layers" \in DOMAIN ArchitectureSummary.complexity.comparisons)
                 <=> EveryPositive("num_layers")
           /\ ("attention_heads" \in DOMAIN ArchitectureSummary.complexity.comparisons)
                 <=> EveryPositive("num_attention_heads")
           /\ ("hidden_size" \in DOMAIN ArchitectureSummary.complexity.comparisons)
                 <=> EveryPositive("hidden_size")

\* C23: the architecture summary has the efficiency section only when
\* every compared model has a positive parameter count and an accuracy.
C23_EfficiencyOnlyWhenAllHaveBoth ==
    (/\ ArchitectureCompared
     /\ ComparisonSucceeded
     /\ "efficiency" \in DOMAIN ArchitectureSummary)
        => /\ EveryPositive("total_parameters")
           /\ \A id \in ComparedArchitectures :
                 /\ "performance" \in DOMAIN Fetched(id).value
                 /\ Fetched(id).value["performance"].v.accuracy.t # "none"

(***************************************************************************)
(* handle_fallback_search: text search, then metadata search, as the calls *)
(* of the two handlers modelled above                                      *)
(***************************************************************************)
FallbackInit ==
    /\ pc = "handle_fallback_search"
    /\ intent = None
    /\ caller_intent = None
    /\ parameters \in SearchBags
    /\ caller_parameters = parameters
    /\ user_id = None
    /\ access_control_manager = None
    /\ analytics = None
    /\ results = Pending
    /\ chroma_manager \in ChromaOutcomes
    /\ tasks = <<>>
    /\ calls = <<>>
    /\ outcome = Pending
    /\ query_text = <<>>
    /\ use_langchain = FALSE
    /\ chain_reply = None
    /\ model_mentions = {}
    /\ doc = <<>>
    /\ param_reply = None
    /\ stack = <<>>
    /\ re_bound = FALSE

\* a test that takes any successful result
HasItems_AnyResult(result) ==
    /\ result.t = "return"
    /\ result.value.success

\* text_results.get('success', False) and text_results.get('total_found', 0) > 0
HasItems(result) ==
    /\ result.t = "return"
    /\ result.value.success
    /\ result.value.total_found > 0

\* line 532: await self.handle_text_search(query, parameters)
fallback_call_text_search ==
    /\ pc = "handle_fallback_search"
    /\ pc' = "handle_text_search"
    /\ stack' = <<"handle_fallback_search">>
    /\ UNCHANGED <<intent, calls, outcome, dispatch_only, query_text, use_langchain,
                   chain_reply, model_mentions, doc, re_bound, param_reply,
                   handler_only>>

\* lines 534-540 and 555-566: the text search came back; its result is
\* returned when it has items, its exception gives the error response of
\* the outer except, and otherwise the metadata search is called, to which
\* the database gives an answer of its own
fallback_text_search_done ==
    /\ pc \in {"returned", "raised"}
    /\ stack = <<"handle_fallback_search">>
    /\ calls' = Append(calls, Call("handle_text_search", parameters, outcome))
    /\ IF outcome.t = "raise"
       THEN /\ outcome' = FallbackError
            /\ pc' = "returned"
            /\ stack' = <<>>
            /\ UNCHANGED handler_only
       ELSE IF HasItems(outcome)
       THEN /\ outcome' = outcome
            /\ pc' = "returned"
            /\ stack' = <<>>
            /\ UNCHANGED handler_only
       ELSE /\ outcome' = Pending
            /\ pc' = "handle_metadata_search"
            /\ stack' = <<"handle_fallback_search", "try">>
            /\ chroma_manager' \in ChromaOutcomes
            /\ UNCHANGED tasks
    /\ UNCHANGED <<intent, dispatch_only, query_text, use_langchain, chain_reply,
                   model_mentions, doc, re_bound, param_reply>>

\* lines 539-553: the metadata search came back; its result is returned
\* when it has items; without items, or when it raised (inner except), the
\* empty result is returned
fallback_metadata_search_done ==
    /\ pc \in {"returned", "raised"}
    /\ stack = <<"handle_fallback_search", "try">>
    /\ calls' = Append(calls, Call("handle_metadata_search", parameters, outcome))
    /\ outcome' = IF HasItems(outcome) THEN outcome ELSE FallbackEmpty
    /\ pc' = "returned"
    /\ stack' = <<>>
    /\ UNCHANGED <<intent, dispatch_only, query_text, use_langchain, chain_reply,
                   model_mentions, doc, re_bound, param_reply, handler_only>>

FallbackNext ==
    \/ fallback_call_text_search
    \/ text_search
    \/ fallback_text_search_done
    \/ metadata_search
    \/ fallback_metadata_search_done

SpecFallback == FallbackInit /\ [][FallbackNext]_vars

\* the fallback handler has returned or raised
FallbackDone ==
    /\ pc \in {"returned", "raised"}
    /\ stack = <<>>

\* the handler calls the fallback handler has made, in order
FallbackCalls ==
    SelectSeq(calls, LAMBDA c : c.fn \in {"handle_text_search", "handle_metadata_search"})

\* a handler's result with at least one item
YieldedItems(result) ==
    /\ result.t = "return"
    /\ Len(result.value.items) >= 1

\* C24: the fallback handler runs the text search first and returns its
\* result when it has an item, without running the metadata search; the
\* metadata search runs only after a text search without items and its
\* result is returned when it has an item; when both have no item the
\* result is success = true, items = [], total_found = 0 with a message.
C24_FallbackCascade ==
    /\ \A k \in 1..Len(FallbackCalls) :
          FallbackCalls[k].fn = "handle_metadata_search"
          => /\ k = 2
             /\ FallbackCalls[1].fn = "handle_text_search"
             /\ FallbackCalls[1].ret.t = "return"
             /\ FallbackCalls[1].ret.value.total_found = 0
    /\ \A k \in 1..Len(calls) :
          calls[k].fn = "chroma_manager.get"
          => \E j \in 1..(k - 1) :
                /\ calls[j].fn = "handle_text_search"
                /\ calls[j].ret.t = "return"
                /\ calls[j].ret.value.total_found = 0
    /\ FallbackDone
       => /\ Len(FallbackCalls) >= 1
          /\ FallbackCalls[1].fn = "handle_text_search"
          /\ YieldedItems(FallbackCalls[1].ret)
             => /\ outcome = FallbackCalls[1].ret
                /\ Len(FallbackCalls) = 1
          /\ (Len(FallbackCalls) = 2 /\ YieldedItems(FallbackCalls[2].ret))
             => outcome = FallbackCalls[2].ret
          /\ (/\ Len(FallbackCalls) = 2
              /\ FallbackCalls[2].ret.t = "return"
              /\ FallbackCalls[2].ret.value.total_found = 0)
             => /\ outcome.t = "return"
                /\ outcome.value.success
                /\ outcome.value.items = <<>>
                /\ outcome.value.total_found = 0
                /\ "message" \in DOMAIN outcome.value
          /\ (FallbackCalls[1].ret.t = "return" /\ ~YieldedItems(FallbackCalls[1].ret))
             => Len(FallbackCalls) = 2

\* C24 happens: the text search found nothing and the metadata search's
\* items were returned
C24_Witness ==
    /\ FallbackDone
    /\ Len(FallbackCalls) = 2
    /\ FallbackCalls[1].ret.t = "return"
    /\ FallbackCalls[1].ret.value.total_found = 0
    /\ YieldedItems(outcome)
    /\ outcome.value.type = "metadata_search"

\* C24 happens: both searches found nothing
C24_WitnessEmpty ==
    /\ FallbackDone
    /\ Len(FallbackCalls) = 2
    /\ FallbackCalls[2].ret.t = "return"
    /\ FallbackCalls[2].ret.value.total_found = 0
    /\ outcome = FallbackEmpty

\* C25: when the text search or the metadata search raises inside the
\* fallback handler, the handler returns the empty result with success =
\* true, items = [] and total_found = 0: it neither raises nor reports a
\* failure.
C25_FallbackDegradesToEmpty ==
    (/\ FallbackDone
     /\ \E k \in 1..Len(FallbackCalls) : FallbackCalls[k].ret.t = "raise")
    => /\ outcome.t = "return"
       /\ outcome.value.success
       /\ outcome.value.items = <<>>
       /\ outcome.value.total_found = 0

====
